---- MODULE Spec2Model ----
(***************************************************************************)
(* A model of the jerryrig repository (raeeceip/jerryrig):                 *)
(*   - ProgressTracker (src/jerryrig/monitoring/progress_tracker.py)       *)
(*   - the six SAM stage functions (sam_project/agents/*.py)               *)
(*   - SolaceAgent and the chunking agents (src/jerryrig/agents)           *)
(*   - the chunking steps, the migration validation and the readiness      *)
(*     score.                                                              *)
(* Each subsystem has its own specification over the shared variables; the *)
(* variables of the other subsystems stay at their initial value.          *)
(*                                                                         *)
(* Numbers that are floats in the source (confidence, readiness score) are *)
(* kept as hundredths: 80 stands for 0.8.                                  *)
(***************************************************************************)
EXTENDS Integers, Sequences, FiniteSets, TLC

VARIABLES
    workflows,      \* ProgressTracker.workflows: correlation id -> workflow
    stageCall,      \* the stage function called and its input record
    stageResult,    \* what that call returned (or that it raised)
    agent,          \* the SolaceAgent under test (its resolved api_key)
    agentCall,      \* the arguments and backend outcome of the current call
    agentResult,    \* what migrate_code / process_migration_request returned
    chunkInput,     \* the file list, chunk size and size ceiling to chunk
    chunkResult,    \* the chunks each chunking step produced
    validationInput,\* arguments of _validate_migration
    validation,     \* the Validation Result
    readinessInput, \* arguments of _assess_migration_readiness
    readiness,      \* the readiness record
    routing,        \* a RepositoryMigrationAgent and its routing decision
    monitoring,     \* a call of MeshClient.monitor_migration_progress
    launcher,       \* the MeshLauncher and where its main thread is
    migration,      \* a call of CodeMigrator.migrate_code and its outcome
    digest,         \* an ingestion digest: written, then split again
    direct,         \* the direct path of RepositoryMigrationAgent
    fast,           \* a call of FastRepositoryMigrator.migrate_repository_fast
    chain,          \* a request passed from stage function to stage function
    simple,         \* a run of the simple-migration command
    bcast,          \* one status broadcast racing the WebSocket thread
    handlers        \* ProgressTracker.event_handlers and their last calls

vars == <<workflows, stageCall, stageResult, agent, agentCall, agentResult,
          chunkInput, chunkResult, validationInput, validation,
          readinessInput, readiness, routing, monitoring,
          launcher, migration, digest, direct, fast,
          chain,
          simple,
          bcast,
          handlers>>

\* A step of one subsystem leaves the variables of the others alone.
UnchangedExcept(part) ==
    /\ IF part = "tracker" THEN TRUE ELSE UNCHANGED workflows
    /\ IF part = "stage" THEN TRUE ELSE UNCHANGED <<stageCall, stageResult>>
    /\ IF part = "agent" THEN TRUE
       ELSE UNCHANGED <<agent, agentCall, agentResult>>
    /\ IF part = "chunk" THEN TRUE ELSE UNCHANGED <<chunkInput, chunkResult>>
    /\ IF part = "validation" THEN TRUE
       ELSE UNCHANGED <<validationInput, validation>>
    /\ IF part = "readiness" THEN TRUE
       ELSE UNCHANGED <<readinessInput, readiness>>
    /\ IF part = "routing" THEN TRUE ELSE UNCHANGED routing
    /\ IF part = "monitoring" THEN TRUE ELSE UNCHANGED monitoring
    /\ IF part = "launcher" THEN TRUE ELSE UNCHANGED launcher
    /\ IF part = "migration" THEN TRUE ELSE UNCHANGED migration
    /\ IF part = "digest" THEN TRUE ELSE UNCHANGED digest
    /\ IF part = "direct" THEN TRUE ELSE UNCHANGED direct
    /\ IF part = "fast" THEN TRUE ELSE UNCHANGED fast
    /\ IF part = "chain" THEN TRUE ELSE UNCHANGED chain
    /\ IF part = "simple" THEN TRUE ELSE UNCHANGED simple
    /\ IF part = "bcast" THEN TRUE ELSE UNCHANGED bcast
    /\ IF part \in {"tracker", "handlers"} THEN TRUE
       ELSE UNCHANGED handlers

-----------------------------------------------------------------------------
(* Helpers over sequences *)

RECURSIVE SumSeq(_)
SumSeq(s) == IF s = <<>> THEN 0 ELSE Head(s) + SumSeq(Tail(s))

RECURSIVE Flatten(_)
Flatten(ss) == IF ss = <<>> THEN <<>> ELSE Head(ss) \o Flatten(Tail(ss))

SeqsUpTo(S, n) == UNION {[1..k -> S] : k \in 0..n}

Min(a, b) == IF a < b THEN a ELSE b
Max(a, b) == IF a > b THEN a ELSE b

-----------------------------------------------------------------------------
(* ProgressTracker.  Each operation is the step it makes on workflows; on  *)
(* an untracked correlation id it returns without a change.                *)

MaxChunks    == 2   \* chunk ids 0..MaxChunks-1, total_chunks 0..MaxChunks
MaxProcessed == 2   \* cap on processed_chunks (an unbounded counter)
MaxEvents    == 5   \* cap on the length of a workflow's event log

CorrIds == {"w1"}

WorkflowStatus == {"pending", "chunking", "analyzing", "migrating",
                   "aggregating", "completed", "failed", "cancelled"}

TerminalStatuses == {"completed", "failed", "cancelled"}

\* successful_migrations / failed_migrations reported for one chunk
MigrationCounts == {0, 1}

\* The chunk_data lists update_chunking_progress is called with: up to two
\* entries, the chunk ids free (repeated ids included).
ChunkDataLists ==
    SeqsUpTo([chunk_id : 0..(MaxChunks - 1), file_count : 0..1], 2)

NoWorkflow == [tracked |-> FALSE]

Tracked(c) == workflows[c].tracked

\* ProgressMetrics() with its defaults.
ProgressMetrics == [total_files |-> 0, processed_files |-> 0,
                    successful_files |-> 0, failed_files |-> 0,
                    total_chunks |-> 0, processed_chunks |-> 0]

\* _emit_event: the event is appended to the workflow's log when the
\* correlation id is tracked.
_emit_event(wf, event_type) ==
    IF wf.tracked THEN [wf EXCEPT !.events = Append(@, event_type)] ELSE wf

\* The body of update_workflow_status on a tracked workflow.
SetStatus(wf, status) ==
    _emit_event([wf EXCEPT !.status = status,
                           !.completion_time =
                               IF status = "completed" THEN TRUE ELSE @],
                "status_changed")

\* The event log has room for n more events.
Room(c, n) == Tracked(c) => Len(workflows[c].events) + n <= MaxEvents

start_workflow(c) ==
    /\ workflows' = [workflows EXCEPT ![c] =
           _emit_event([tracked |-> TRUE, status |-> "pending",
                        metrics |-> ProgressMetrics, events |-> <<>>,
                        chunks |-> [i \in {} |-> "pending"],
                        completion_time |-> FALSE, error |-> FALSE,
                        final_result |-> FALSE],
                       "workflow_started")]
    /\ UnchangedExcept("tracker")

update_workflow_status(c, status) ==
    /\ Room(c, 1)
    /\ workflows' = IF ~Tracked(c) THEN workflows
                    ELSE [workflows EXCEPT ![c] = SetStatus(@, status)]
    /\ UnchangedExcept("tracker")

\* workflow["chunks"][chunk_id] = {...} for each entry of chunk_data
RECURSIVE StoreChunks(_, _)
StoreChunks(chunks, chunk_data) ==
    IF chunk_data = <<>> THEN chunks
    ELSE LET id == Head(chunk_data).chunk_id
         IN StoreChunks([i \in DOMAIN chunks \cup {id} |->
                            IF i = id THEN "pending" ELSE chunks[i]],
                        Tail(chunk_data))

update_chunking_progress(c, total_chunks, chunk_data) ==
    /\ Room(c, 1)
    /\ workflows' = IF ~Tracked(c) THEN workflows
       ELSE [workflows EXCEPT ![c] =
           _emit_event(
               [@ EXCEPT !.metrics.total_chunks = total_chunks,
                         !.metrics.total_files =
                             SumSeq([i \in DOMAIN chunk_data |->
                                        chunk_data[i].file_count]),
                         !.chunks = StoreChunks(@, chunk_data)],
               "chunking_completed")]
    /\ UnchangedExcept("tracker")

update_chunk_analysis(c, chunk_id) ==
    /\ Room(c, 1)
    /\ workflows' = IF ~Tracked(c) THEN workflows
       ELSE [workflows EXCEPT ![c] =
           _emit_event(
               IF chunk_id \in DOMAIN @.chunks /\ @.chunks[chunk_id] = "pending"
               THEN [@ EXCEPT !.chunks[chunk_id] = "analyzing"]
               ELSE @,
               "chunk_analyzed")]
    /\ UnchangedExcept("tracker")

\* The per-chunk bookkeeping of update_chunk_migration (lines 205-221).
RecordChunkMigration(wf, chunk_id, successful, failed) ==
    IF chunk_id \in DOMAIN wf.chunks
    THEN [wf EXCEPT !.chunks[chunk_id] = "completed",
                    !.metrics.processed_chunks = @ + 1,
                    !.metrics.processed_files = @ + successful + failed,
                    !.metrics.successful_files = @ + successful,
                    !.metrics.failed_files = @ + failed]
    ELSE wf

\* The event, then the closing check processed_chunks == total_chunks
\* (lines 231-232).
update_chunk_migration(c, chunk_id, successful, failed) ==
    /\ Room(c, 2)
    /\ Tracked(c) => workflows[c].metrics.processed_chunks < MaxProcessed
    /\ workflows' = IF ~Tracked(c) THEN workflows
       ELSE [workflows EXCEPT ![c] =
           LET recorded ==
                   _emit_event(RecordChunkMigration(@, chunk_id, successful,
                                                    failed),
                               "chunk_migrated")
           IN IF recorded.metrics.processed_chunks
                     = recorded.metrics.total_chunks
              THEN SetStatus(recorded, "aggregating")
              ELSE recorded]
    /\ UnchangedExcept("tracker")

complete_workflow(c) ==
    /\ Room(c, 1)
    /\ workflows' = IF ~Tracked(c) THEN workflows
       ELSE [workflows EXCEPT ![c] =
                SetStatus([@ EXCEPT !.final_result = TRUE,
                                    !.completion_time = TRUE], "completed")]
    /\ UnchangedExcept("tracker")

fail_workflow(c) ==
    /\ Room(c, 2)
    /\ workflows' = IF ~Tracked(c) THEN workflows
       ELSE [workflows EXCEPT ![c] =
                _emit_event(
                    SetStatus([@ EXCEPT !.error = TRUE,
                                        !.completion_time = TRUE], "failed"),
                    "workflow_failed")]
    /\ UnchangedExcept("tracker")

MaxHandlers == 2   \* event handlers registered with the tracker

\* The handler loop that lets the exception of a handler escape.
NotifyEventHandlersUnprotected(event_handlers, event) ==
    LET raising == {i \in 1..Len(event_handlers) :
                       event_handlers[i] = "raises"}
        last == IF raising = {} THEN Len(event_handlers)
                ELSE CHOOSE i \in raising : \A j \in raising : i <= j
    IN [i \in 1..last |->
           [handler |-> i, event |-> event,
            outcome |-> IF event_handlers[i] = "raises" THEN "escaped"
                        ELSE "returned"]]

\* The handler loop of _emit_event (lines 371-376): the calls it makes, in
\* order; the exception of a handler that raises is caught and logged.
NotifyEventHandlers(event_handlers, event) ==
    [i \in 1..Len(event_handlers) |->
        [handler |-> i, event |-> event,
         outcome |-> IF event_handlers[i] = "raises" THEN "caught"
                     ELSE "returned"]]

\* ProgressTracker.add_event_handler; a handler either returns or raises
\* when it is called.
add_event_handler(handler) ==
    /\ Len(handlers.event_handlers) < MaxHandlers
    /\ handlers' = [event_handlers |->
                        Append(handlers.event_handlers, handler),
                    notified |-> <<>>]
    /\ UNCHANGED workflows
    /\ UnchangedExcept("tracker")

-----------------------------------------------------------------------------
(* The SAM stage functions (sam_project/agents).                            *)
(* An input record is a dict; each field the code reads is given by the     *)
(* kind of value it holds.  A result is the returned dict, or raised = TRUE *)
(* when an exception leaves the function.                                   *)

MaxStageFiles == 2   \* files per chunk handed to code_migrator

\* The calls made: a stage and its input dict.  input_data['request'] is
\* missing, not a dict (None or a string), or a dict.
StageInputs ==
    LET CorrelationIds == {"absent", "cid1"}
        SessionIds == {"absent", "session_1"}
        OperationTypes == {"absent", "analysis", "migration", "other"}
        OptionKinds == {"absent", "dict", "none"}
        Requests ==
            {[kind |-> "absent"], [kind |-> "none"], [kind |-> "str"]} \cup
            [kind : {"dict"}, repository_url : BOOLEAN,
             target_language : {"absent", "javascript"},
             correlation_id : CorrelationIds,
             operation_type : {"absent", "analysis", "migration"},
             options : OptionKinds]
    IN
    [stage : {"repository_input", "repository_orchestrator"},
     request : Requests] \cup
    [stage : {"handle_completion"}, operation_type : OperationTypes,
     correlation_id : CorrelationIds, session_id : SessionIds] \cup
    [stage : {"repository_chunker"}, correlation_id : CorrelationIds,
     session_id : SessionIds, options : OptionKinds,
     clone : {"ok", "fails"}, analysis : {"ok", "raises"},
     chunks : 0..MaxStageFiles] \cup
    [stage : {"code_analyzer"}, correlation_id : CorrelationIds,
     session_id : SessionIds, files : {"list", "none", "nondict_items"}] \cup
    [stage : {"code_migrator"}, correlation_id : CorrelationIds,
     session_id : SessionIds, api_key : BOOLEAN,
     analysis : {"dict", "absent", "none"},
     file_outcomes : SeqsUpTo({"ok", "api_error"}, MaxStageFiles)] \cup
    [stage : {"result_aggregator"}, operation_type : OperationTypes,
     correlation_id : CorrelationIds, session_id : SessionIds,
     results : {"empty", "list", "malformed"}]

NotCalled == [raised |-> FALSE, status |-> "not_called", error |-> FALSE,
              correlation_id |-> "absent", session_id |-> "absent"]

StageRaised == [raised |-> TRUE, status |-> "absent", error |-> FALSE,
                correlation_id |-> "absent", session_id |-> "absent"]

StageReturn(status, error, correlation_id, session_id) ==
    [raised |-> FALSE, status |-> status, error |-> error,
     correlation_id |-> correlation_id, session_id |-> session_id]

\* dict.get(key) on a field that may be missing: None is reported as absent.
Get(request, field) == IF request.kind = "dict" THEN request[field] ELSE "absent"

\* repository_input.process
repository_input(input) ==
    LET request == input.request
        \* the try block raises (lines 26-67)
        fails == \/ request.kind # "dict"
                 \/ ~request.repository_url
                 \/ request.target_language = "absent"
                 \/ request.options = "none"
    IN IF fails
       THEN StageReturn("failed", TRUE, Get(request, "correlation_id"), "absent")
       ELSE StageReturn("validated", FALSE,
                        IF request.correlation_id = "absent"
                        THEN "req_time" ELSE request.correlation_id,
                        "absent")

\* repository_orchestrator.process: request.get raises in the try block
\* when the request is not a dict, and the except block (lines 80-86)
\* evaluates input_data.get('request', {}).get('correlation_id') again.
repository_orchestrator(input) ==
    LET request == input.request
        handler == IF request.kind \in {"none", "str"}
                   THEN StageRaised
                   ELSE StageReturn("failed", TRUE,
                                    Get(request, "correlation_id"), "absent")
    IN IF request.kind \in {"none", "str"}
       THEN handler
       ELSE StageReturn("orchestrated", FALSE,
                        Get(request, "correlation_id"), "session_new")

\* repository_orchestrator.handle_completion
handle_completion(input) ==
    IF input.operation_type \in {"analysis", "migration"}
    THEN StageReturn("completed", FALSE, input.correlation_id, input.session_id)
    ELSE StageReturn("failed", TRUE, input.correlation_id, "absent")

\* repository_chunker._clone_repository without the rmtree of its handler
_clone_repository_keeping_dir(input) ==
    [raised |-> input.clone = "fails", temp_dir |-> "exists"]

\* repository_chunker._clone_repository: mkdtemp makes the directory, and a
\* failed clone removes it again before the exception is re-raised.
_clone_repository(input) ==
    LET temp_dir == "exists"
        rmtree(dir) == "removed"
    IN IF input.clone = "fails"
       THEN [raised |-> TRUE, temp_dir |-> rmtree(temp_dir)]
       ELSE [raised |-> FALSE, temp_dir |-> temp_dir]

\* the chunk requests of repository_chunker.process, all with a fresh id
chunk_requests_minting(input) ==
    [i \in 1..input.chunks |->
        [session_id |-> "session_new", correlation_id |-> "req_time",
         chunk_index |-> i - 1, total_chunks |-> input.chunks]]

\* The chunk requests repository_chunker.process builds (lines 64-86), one
\* per chunk of _create_chunks.
chunk_requests(input) ==
    [i \in 1..input.chunks |->
        [session_id |-> input.session_id,
         correlation_id |-> input.correlation_id,
         chunk_index |-> i - 1, total_chunks |-> input.chunks]]

\* repository_chunker.process: the result also records what has become of
\* the temporary clone directory when the function returns (temp_dir) and
\* the chunk requests returned (chunks).  Structure analysis and chunk
\* creation run inside try/finally, and the finally block removes the
\* directory.
repository_chunker(input) ==
    LET clone == _clone_repository(input)
        rmtree(dir) == "removed"
    IN IF clone.raised
       THEN StageReturn("failed", TRUE, input.correlation_id, input.session_id)
            @@ [temp_dir |-> clone.temp_dir, chunks |-> <<>>]
       ELSE IF input.analysis = "raises" \/ input.options = "none"
       THEN StageReturn("failed", TRUE, input.correlation_id, input.session_id)
            @@ [temp_dir |-> rmtree(clone.temp_dir), chunks |-> <<>>]
       ELSE StageReturn("chunked", FALSE, input.correlation_id,
                        input.session_id)
            @@ [temp_dir |-> rmtree(clone.temp_dir),
                chunks |-> chunk_requests(input)]

\* code_analyzer.process
code_analyzer(input) ==
    IF input.files # "list"
    THEN StageReturn("failed", TRUE, input.correlation_id, input.session_id)
    ELSE StageReturn("completed", FALSE, input.correlation_id, input.session_id)

\* code_migrator.process: a file whose migration raises is recorded in
\* migration_errors and the loop goes on (lines 58-77).  The files of the
\* chunk are numbered in the order of file_analyses; the result lists the
\* numbers of the migrated files and of the files with an error.
code_migrator(input) ==
    LET file_analyses == IF input.analysis = "dict"
                         THEN [i \in DOMAIN input.file_outcomes |->
                                  [path |-> i, outcome |-> input.file_outcomes[i]]]
                         ELSE <<>>
        Ok(f) == f.outcome = "ok"
        NotOk(f) == f.outcome # "ok"
        migrated_files == SelectSeq(file_analyses, Ok)
        migration_errors == SelectSeq(file_analyses, NotOk)
    IN IF input.analysis = "none" \/ ~input.api_key
       THEN StageReturn("failed", TRUE, input.correlation_id, input.session_id)
       ELSE StageReturn("completed", FALSE, input.correlation_id,
                        input.session_id)
            @@ [migrated_files |->
                    [i \in DOMAIN migrated_files |-> migrated_files[i].path],
                errors |->
                    [i \in DOMAIN migration_errors |-> migration_errors[i].path],
                metrics |->
                    [total_files |-> Len(file_analyses),
                     successful_migrations |-> Len(migrated_files),
                     failed_migrations |-> Len(migration_errors)]]

\* result_aggregator.process: a missing operation_type defaults to
\* 'analysis'; results are the analysis_results / migration_results read.
result_aggregator(input) ==
    IF input.operation_type = "other" \/ input.results = "malformed"
    THEN StageReturn("failed", TRUE, input.correlation_id, input.session_id)
    ELSE IF input.results = "empty"
    THEN StageReturn("no_results", FALSE, input.correlation_id, input.session_id)
    ELSE StageReturn("completed", FALSE, input.correlation_id, input.session_id)

-----------------------------------------------------------------------------
(* SolaceAgent (src/jerryrig/agents/solace_agent.py).                       *)
(* An API key is a sequence of characters; <<>> stands for no key (None or  *)
(* the empty string, both falsy).  Source code is a sequence of tokens and  *)
(* a backend response a sequence of lines.                                  *)

MaxSrcLen   == 2   \* tokens of a source text
MaxRespLines == 2  \* lines of a backend response
MaxBatch    == 2   \* files of one migration request

\* The api_key argument: none, a JWT, an Anthropic-style and an OpenAI-style
\* key, and keys that are almost one of these.
ApiKeys == {<<>>, <<"e", "y", "J", "h">>,
            <<"s", "k", "-", "a", "n", "t", "-", "1">>, <<"s", "k", "-", "1">>,
            <<"s", "k">>, <<"e", "y">>, <<"k", "e", "y">>}

Languages == {"python", "javascript", "java"}

startswith(s, prefix) ==
    Len(s) >= Len(prefix) /\ SubSeq(s, 1, Len(prefix)) = prefix

\* SolaceAgent._get_default_base_url
_get_default_base_url(solace_key, openai_key, anthropic_key) ==
    IF solace_key # <<>> /\ startswith(solace_key, <<"e", "y", "J">>)
    THEN "https://api.solace.cloud"
    ELSE IF openai_key # <<>> THEN "https://api.openai.com/v1"
    ELSE IF anthropic_key # <<>> THEN "https://api.anthropic.com/v1"
    ELSE "https://api.openai.com/v1"

\* SolaceAgent.__init__ with base_url = None and provider = "auto"; the
\* last three arguments are the keys found in the environment.
SolaceAgent(api_key, solace_key, openai_key, anthropic_key) ==
    LET Or(a, b) == IF a # <<>> THEN a ELSE b
        key == Or(Or(Or(api_key, solace_key), openai_key), anthropic_key)
        jwt == key # <<>> /\ startswith(key, <<"e", "y", "J">>)
    IN [api_key  |-> key,
        provider |-> IF jwt THEN "solace_sam" ELSE "auto",
        base_url |-> IF jwt THEN "https://api.solace.cloud"
                     ELSE _get_default_base_url(solace_key, openai_key,
                                                anthropic_key)]

\* SolaceAgent._detect_provider
_detect_provider(api_key) ==
    IF api_key = <<>> THEN "mock"
    ELSE IF startswith(api_key, <<"e", "y", "J">>) THEN "solace_sam"
    ELSE IF startswith(api_key, <<"s", "k", "-">>) THEN "openai"
    ELSE IF startswith(api_key, <<"s", "k", "-", "a", "n", "t", "-">>)
         THEN "anthropic"
    ELSE "unknown"

\* The dict a migration returns, with the method that produced it.
MigrationRecord(success, migrated_code, confidence, via) ==
    [raised |-> FALSE, success |-> success, migrated_code |-> migrated_code,
     confidence |-> confidence, via |-> via]

\* An exception leaves the method.
MigrationRaised == [raised |-> TRUE, success |-> FALSE, migrated_code |-> <<>>,
                    confidence |-> 0, via |-> "exception"]

\* str.replace('def ', 'function ').replace('True', 'true') and back, on
\* the tokens of a text
PyToJs(code) ==
    [i \in DOMAIN code |-> IF code[i] = "def " THEN "function "
                           ELSE IF code[i] = "True" THEN "true" ELSE code[i]]
JsToPy(code) ==
    [i \in DOMAIN code |-> IF code[i] = "function " THEN "def "
                           ELSE IF code[i] = "true" THEN "True" ELSE code[i]]

\* SolaceAgent._mock_migration_response with the four _x_to_y_mock
\* conversions (lines 517-548); confidence 75 is 0.75.
_mock_migration_response(source_code, source_language, target_language) ==
    LET _python_to_javascript_mock ==
            <<"// Converted from Python\n">> \o PyToJs(source_code)
                \o <<"\n// End conversion">>
        _javascript_to_python_mock ==
            <<"# Converted from JavaScript\n">> \o JsToPy(source_code)
                \o <<"\n# End conversion">>
        _python_to_java_mock ==
            <<"// Converted from Python\npublic class ConvertedCode {\n    // ">>
                \o source_code \o <<"\n}">>
        _java_to_python_mock ==
            <<"# Converted from Java\n# ">> \o source_code \o <<"\npass">>
        migrated_code ==
            IF source_language = "python" /\ target_language = "javascript"
            THEN _python_to_javascript_mock
            ELSE IF source_language = "javascript" /\ target_language = "python"
            THEN _javascript_to_python_mock
            ELSE IF source_language = "python" /\ target_language = "java"
            THEN _python_to_java_mock
            ELSE IF source_language = "java" /\ target_language = "python"
            THEN _java_to_python_mock
            ELSE <<"// Migrated from ", source_language, " to ",
                   target_language, "\n">> \o source_code
    IN MigrationRecord(TRUE, migrated_code, 75, "mock")

\* SolaceAgent._enhanced_solace_mock with _python_to_js_enhanced and
\* _js_to_python_enhanced: the substitutions, and one closing brace per
\* function the text opens (the source tokens hold no closing brace;
\* indentation is not represented).  Confidence 82 is 0.82.
_enhanced_solace_mock(source_code, source_language, target_language) ==
    LET js == PyToJs(source_code)
        _python_to_js_enhanced ==
            <<"// Enhanced migration from Python to JavaScript\n">> \o js
                \o [i \in 1..Cardinality({j \in DOMAIN js :
                                             js[j] = "function "}) |-> "}"]
        _js_to_python_enhanced ==
            <<"# Enhanced migration from JavaScript to Python\n">>
                \o JsToPy(source_code)
    IN MigrationRecord(TRUE,
           IF source_language = "python" /\ target_language = "javascript"
           THEN _python_to_js_enhanced
           ELSE IF source_language = "javascript" /\ target_language = "python"
           THEN _js_to_python_enhanced
           ELSE <<"// Enhanced migration from ", source_language, " to ",
                  target_language, "\n">> \o source_code,
           82, "enhanced_mock")

\* The answer of the AI backend to one request: a response whose content
\* is some lines (a code fence, code, blank), or a failure.
Backends ==
    [outcome : {"ok"},
     content : SeqsUpTo({"<fence>", "code", ""}, MaxRespLines),
     success : BOOLEAN] \cup
    [outcome : {"network_error", "http_error", "bad_json", "bad_shape"},
     content : {<<>>}, success : {FALSE}]

\* str.strip() on a text kept as lines: blank lines at both ends go.
RECURSIVE Strip(_)
Strip(lines) ==
    IF lines # <<>> /\ Head(lines) = "" THEN Strip(Tail(lines))
    ELSE IF lines # <<>> /\ lines[Len(lines)] = ""
    THEN Strip(SubSeq(lines, 1, Len(lines) - 1))
    ELSE lines

\* The body shared by _openai_migration and _anthropic_migration: a failed
\* request raises; the code-fence clean-up (lines 243-255) keeps the lines
\* between the first two fences.
ChatMigration(backend, confidence, via) ==
    LET lines == backend.content
        fences == {i \in DOMAIN lines : lines[i] = "<fence>"}
        first == CHOOSE i \in fences : \A j \in fences : i <= j
        later == {i \in fences : i > first}
        second == CHOOSE i \in later : \A j \in later : i <= j
        cleaned == IF fences = {} THEN lines
                   ELSE SubSeq(lines, first + 1,
                               IF later = {} THEN Len(lines) ELSE second - 1)
    IN IF backend.outcome # "ok" THEN MigrationRaised
       ELSE MigrationRecord(TRUE, Strip(cleaned), confidence, via)

_openai_migration(backend) == ChatMigration(backend, 85, "openai")
_anthropic_migration(backend) == ChatMigration(backend, 90, "anthropic")

\* _solace_sam_migration: every failure falls to the enhanced mock.
_solace_sam_migration(source_code, source_language, target_language, backend) ==
    IF backend.outcome # "ok"
    THEN _enhanced_solace_mock(source_code, source_language, target_language)
    ELSE MigrationRecord(TRUE, backend.content, 85, "solace_sam")

\* _call_solace_api and the record migrate_code builds from it (lines 94-115)
SolaceApiMigration(backend) ==
    IF backend.outcome # "ok" THEN MigrationRaised
    ELSE MigrationRecord(backend.success, backend.content, 0, "solace_api")

\* The try block of migrate_code (lines 84-115).
Dispatch(api_key, source_code, source_language, target_language, backend) ==
    LET provider == _detect_provider(api_key)
    IN IF provider = "solace_sam"
       THEN _solace_sam_migration(source_code, source_language,
                                  target_language, backend)
       ELSE IF provider = "openai" THEN _openai_migration(backend)
       ELSE IF provider = "anthropic" THEN _anthropic_migration(backend)
       ELSE SolaceApiMigration(backend)

\* An except clause that lets the exception through.
OnErrorRethrow(attempt, source_code, source_language, target_language) ==
    attempt

\* The except clause of migrate_code (lines 117-119).
OnError(attempt, source_code, source_language, target_language) ==
    IF attempt.raised
    THEN _mock_migration_response(source_code, source_language, target_language)
    ELSE attempt

\* SolaceAgent.migrate_code
migrate_code(ag, source_code, source_language, target_language, backend) ==
    IF ag.api_key = <<>>
    THEN _mock_migration_response(source_code, source_language, target_language)
    ELSE OnError(Dispatch(ag.api_key, source_code, source_language,
                          target_language, backend),
                 source_code, source_language, target_language)

-----------------------------------------------------------------------------
(* CodeMigratorAgent (src/jerryrig/agents/chunking_agents.py) *)

\* One analysed file of a request, with what the backend answers for it.
BatchFiles ==
    [language : {"python", "javascript"},
     functions : SeqsUpTo({"f"}, 1), classes : SeqsUpTo({"C"}, 1),
     backend : {[outcome |-> "ok", content |-> <<"code">>, success |-> TRUE],
                [outcome |-> "ok", content |-> <<"code">>, success |-> FALSE],
                [outcome |-> "http_error", content |-> <<>>,
                 success |-> FALSE]}]

\* CodeMigratorAgent._generate_content_from_analysis
_generate_content_from_analysis(file_analysis) ==
    IF file_analysis.language = "python"
    THEN <<"# Python code\n">>
         \o Flatten([i \in DOMAIN file_analysis.classes |->
                        <<"class ", file_analysis.classes[i], ":\n    pass\n\n">>])
         \o Flatten([i \in DOMAIN file_analysis.functions |->
                        <<"def ", file_analysis.functions[i], "():\n    pass\n\n">>])
    ELSE <<"// Generated content\n">>
         \o Flatten([i \in DOMAIN file_analysis.classes |->
                        <<"class ", file_analysis.classes[i], " {}\n\n">>])
         \o Flatten([i \in DOMAIN file_analysis.functions |->
                        <<"function ", file_analysis.functions[i], "() {}\n\n">>])

\* CodeMigratorAgent._migrate_file: a raising migrate_code gives success False.
_migrate_file(ag, file_analysis, target_language) ==
    LET migration_result ==
            migrate_code(ag, _generate_content_from_analysis(file_analysis),
                         file_analysis.language, target_language,
                         file_analysis.backend)
    IN IF migration_result.raised
       THEN [success |-> FALSE, confidence |-> 0]
       ELSE [success |-> migration_result.success,
             confidence |-> migration_result.confidence]

\* CodeMigratorAgent._aggregate_migration_results
_aggregate_migration_results(migration_results) ==
    LET total_files == Len(migration_results)
        successful_migrations ==
            Cardinality({i \in DOMAIN migration_results :
                            migration_results[i].success})
    IN [total_files |-> total_files,
        successful_migrations |-> successful_migrations,
        failed_migrations |-> total_files - successful_migrations]

\* CodeMigratorAgent.process_migration_request
process_migration_request(ag, file_analyses, target_language) ==
    LET migration_results ==
            [i \in DOMAIN file_analyses |->
                _migrate_file(ag, file_analyses[i], target_language)]
    IN [raised |-> FALSE, success |-> TRUE,
        chunk_migration |-> _aggregate_migration_results(migration_results)]

-----------------------------------------------------------------------------
(* The chunking steps.  A file is its path and size; a chunk is kept as     *)
(* its chunk id and file list.                                              *)

MaxFiles     == 3   \* length of the file list to chunk
MaxChunkSize == 3   \* chunk sizes 1..MaxChunkSize
MaxFileBytes == 2   \* file sizes 1..MaxFileBytes

ChunkFiles == [path : {"a.py", "b.py"}, size : 1..MaxFileBytes]

\* the i values of range(0, n, step)
Range(n, step) == {i \in 0..(n - 1) : i % step = 0}

\* A slice that runs one file into the next chunk: files[i:i + chunk_size + 1].
SliceOverlap(files, i, chunk_size) ==
    SubSeq(files, i + 1, Min(i + chunk_size + 1, Len(files)))

\* files[i:i + chunk_size], i counted from 0
Slice(files, i, chunk_size) ==
    SubSeq(files, i + 1, Min(i + chunk_size, Len(files)))

\* RepositoryChunkerAgent._create_file_chunks
_create_file_chunks(files, chunk_size) ==
    [k \in 1..Cardinality(Range(Len(files), chunk_size)) |->
        [chunk_id |-> k - 1,
         files |-> Slice(files, (k - 1) * chunk_size, chunk_size)]]

\* The chunk loop of RepositoryMigrationAgent._create_repository_chunks
_create_repository_chunks(files, chunk_size) ==
    [k \in 1..Cardinality(Range(Len(files), chunk_size)) |->
        [chunk_id |-> ((k - 1) * chunk_size) \div chunk_size,
         files |-> Slice(files, (k - 1) * chunk_size, chunk_size)]]

\* sorted(files, key=lambda f: (f['size'], f['path'])): a stable insertion
\* sort, Insert placing f after the entries whose key is not greater.
RECURSIVE Insert(_, _)
Insert(sorted, f) ==
    LET PathRank(path) == IF path = "a.py" THEN 1 ELSE 2
        KeyLeq(g, h) ==
            \/ g.size < h.size
            \/ g.size = h.size /\ PathRank(g.path) <= PathRank(h.path)
    IN IF sorted = <<>> THEN <<f>>
       ELSE IF KeyLeq(Head(sorted), f)
       THEN <<Head(sorted)>> \o Insert(Tail(sorted), f)
       ELSE <<f>> \o sorted
RECURSIVE Sorted(_)
Sorted(files) ==
    IF files = <<>> THEN <<>>
    ELSE Insert(Sorted(SubSeq(files, 1, Len(files) - 1)), files[Len(files)])

\* The loop of _create_chunks (lines 244-262) from one position on.
RECURSIVE ChunkLoop(_, _, _, _, _)
ChunkLoop(sorted_files, chunk_size, max_file_size, chunks, current_chunk) ==
    IF sorted_files = <<>>
    THEN IF current_chunk # <<>>
         THEN Append(chunks, [chunk_id |-> Len(chunks), files |-> current_chunk])
         ELSE chunks
    ELSE LET file_info == Head(sorted_files)
             full == Len(current_chunk) >= chunk_size /\ current_chunk # <<>>
         IN IF file_info.size > max_file_size
            THEN ChunkLoop(Tail(sorted_files), chunk_size, max_file_size,
                           chunks, current_chunk)
            ELSE ChunkLoop(Tail(sorted_files), chunk_size, max_file_size,
                     IF full
                     THEN Append(chunks, [chunk_id |-> Len(chunks),
                                          files |-> current_chunk])
                     ELSE chunks,
                     IF full THEN <<file_info>>
                     ELSE Append(current_chunk, file_info))

\* repository_chunker._create_chunks
_create_chunks(files, chunk_size, max_file_size) ==
    ChunkLoop(Sorted(files), chunk_size, max_file_size, <<>>, <<>>)

-----------------------------------------------------------------------------
(* code_migrator._validate_migration.  A text is a sequence of lines, each  *)
(* one of the lines below.                                                  *)

MaxOrigLines == 2   \* lines of the original text
MaxMigLines  == 2   \* lines of the migrated text
MaxFunctions == 2   \* functions listed in the file analysis

Lines == {"  ", "# note", "// note", "x = 1", "def f(): pass", "def f(:",
          "function f() {", "}"}

\* An emptiness test without the strip: not migrated_code.
IsEmptyTextNoStrip(text) == text = <<>>

\* not text.strip(): every line is blank
IsEmptyText(text) == \A i \in DOMAIN text : text[i] = "  "

\* text.count(pattern), summed line by line
Count(text, pattern) ==
    LET Occurs(line) ==
            IF pattern = "def "
            THEN (IF line \in {"def f(): pass", "def f(:"} THEN 1 ELSE 0)
            ELSE IF pattern \in {"function ", ") {", "{"}
            THEN (IF line = "function f() {" THEN 1 ELSE 0)
            ELSE IF pattern = "}" THEN (IF line = "}" THEN 1 ELSE 0)
            ELSE 0
    IN SumSeq([i \in DOMAIN text |-> Occurs(text[i])])

\* compile(migrated, '<migrated>', 'exec') raises SyntaxError: each line of
\* Lines is a whole statement, so the text compiles when every line does.
PythonSyntaxError(text) ==
    \E i \in DOMAIN text :
        text[i] \in {"// note", "def f(:", "function f() {", "}"}

\* lines 319-327: ratio < 0.3 or ratio > 3.0, the ratio 0 for no original
LengthRatioCheck(v, original, migrated) ==
    LET o == Len(original)
        m == Len(migrated)
        off == IF o > 0 THEN 10 * m < 3 * o \/ m > 3 * o ELSE TRUE
    IN [v EXCEPT !.checks_performed = Append(@, "length_ratio"),
                 !.warnings = IF off THEN Append(@, "Significant size change")
                              ELSE @,
                 !.confidence = IF off THEN @ - 10 ELSE @]

\* lines 329-349
FunctionPreservationCheck(v, migrated, target_lang, original_functions) ==
    LET function_patterns ==
            IF target_lang \in {"javascript", "typescript"}
            THEN <<"function ", "=>", ": function">>
            ELSE IF target_lang = "python" THEN <<"def ">>
            ELSE IF target_lang = "java" THEN <<") {", "public ", "private ">>
            ELSE <<>>
        migrated_function_count ==
            SumSeq([i \in DOMAIN function_patterns |->
                       Count(migrated, function_patterns[i])])
        lost == 10 * migrated_function_count < 7 * original_functions
    IN IF original_functions = 0 THEN v
       ELSE [v EXCEPT !.checks_performed = Append(@, "function_preservation"),
                      !.warnings =
                          IF lost
                          THEN Append(@, "Some functions may not have been migrated")
                          ELSE @,
                      !.confidence = IF lost THEN @ - 20 ELSE @]

\* lines 351-365
SyntaxCheck(v, migrated, target_lang) ==
    LET checked == [v EXCEPT !.checks_performed = Append(@, "syntax_check")]
    IN IF target_lang = "python"
       THEN IF PythonSyntaxError(migrated)
            THEN [checked EXCEPT !.errors = Append(@, "Syntax error"),
                                 !.is_valid = FALSE,
                                 !.confidence = 20]
            ELSE checked
       ELSE IF target_lang \in {"javascript", "typescript"}
               /\ Count(migrated, "{") # Count(migrated, "}")
       THEN [checked EXCEPT !.warnings = Append(@, "Mismatched braces detected"),
                            !.confidence = @ - 10]
       ELSE checked

\* lines 367-373: '#' lines of the original, '//' lines of the migrated text
CommentCheck(v, original, migrated) ==
    IF /\ \E i \in DOMAIN original : original[i] = "# note"
       /\ \A i \in DOMAIN migrated : migrated[i] # "// note"
    THEN [v EXCEPT !.warnings = Append(@, "Comments may not have been preserved"),
                   !.confidence = @ - 10]
    ELSE v

\* code_migrator._validate_migration: the early return on an empty result
\* (lines 312-317), the four checks, the clamp to [0.0, 1.0] (line 375).
_validate_migration(original, migrated, target_lang, original_functions) ==
    LET validation0 == [is_valid |-> TRUE, warnings |-> <<>>, errors |-> <<>>,
                        confidence |-> 80, checks_performed |-> <<>>]
        checked ==
            CommentCheck(
                SyntaxCheck(
                    FunctionPreservationCheck(
                        LengthRatioCheck(validation0, original, migrated),
                        migrated, target_lang, original_functions),
                    migrated, target_lang),
                original, migrated)
    IN IF IsEmptyText(migrated)
       THEN [validation0 EXCEPT
                !.is_valid = FALSE,
                !.errors = Append(@, "Migration produced empty result"),
                !.confidence = 0]
       ELSE [checked EXCEPT !.confidence = Max(0, Min(100, @))]

-----------------------------------------------------------------------------
(* code_analyzer._assess_migration_readiness *)

MaxAnalyses == 2    \* file analyses of a chunk
MaxDeps     == 16   \* external dependencies of a chunk

\* the complexity_score of one file analysis
ComplexityScores == {0, 9, 10, 29, 30, 60}

\* A complexity factor with the buckets in the opposite order.
ComplexityFactorInverted(file_analyses) ==
    IF file_analyses = <<>> \/ SumSeq(file_analyses) < 10 * Len(file_analyses)
    THEN 10
    ELSE IF SumSeq(file_analyses) < 30 * Len(file_analyses) THEN 20
    ELSE 30

\* lines 401-413: avg_complexity = total / len, 0 for no file analysis
ComplexityFactor(file_analyses) ==
    LET AvgBelow(limit) ==
            IF file_analyses = <<>> THEN 0 < limit
            ELSE SumSeq(file_analyses) < limit * Len(file_analyses)
    IN IF AvgBelow(10) THEN 30
       ELSE IF AvgBelow(30) THEN 20
       ELSE 10

\* lines 415-425
DependencyFactor(external_deps) ==
    IF external_deps < 5 THEN 30
    ELSE IF external_deps < 15 THEN 20
    ELSE 10

\* lines 427-431
PatternFactor(shared_patterns) == IF shared_patterns THEN 20 ELSE 0

\* lines 433-438
LanguageFactor(source_language) ==
    IF source_language \in {"python", "javascript", "typescript", "java"}
    THEN 20 ELSE 0

\* A score is a double: h hundredths, and ulp = 1 (-1) when the double is
\* the one just above (below) the double nearest to that decimal.
Float(h) == [h |-> h, ulp |-> 0]

\* readiness['score'] += t in IEEE double arithmetic, for the sums the
\* scoring forms: 0.1 + 0.2 and 0.2 + 0.1 give 0.30000000000000004,
\* 0.4 + 0.2 gives 0.6000000000000001, 0.7 + 0.2 gives 0.8999999999999999,
\* every other sum is the double nearest to the decimal sum.
FloatAdd(x, t) ==
    IF t = 0 THEN x
    ELSE IF x.ulp = 0 /\ (<<x.h, t>> \in {<<10, 20>>, <<20, 10>>, <<40, 20>>})
    THEN [h |-> x.h + t, ulp |-> 1]
    ELSE IF x.ulp = 0 /\ <<x.h, t>> = <<70, 20>>
    THEN [h |-> x.h + t, ulp |-> -1]
    ELSE Float(x.h + t)

\* x > y on doubles
FloatGt(x, y) == x.h > y.h \/ (x.h = y.h /\ x.ulp > y.ulp)

\* the recommendation chosen from the score (lines 443-451)
Recommendation(score) ==
    IF FloatGt(score, Float(80)) THEN "Chunk is ready for automatic migration"
    ELSE IF FloatGt(score, Float(60))
    THEN "Chunk suitable for migration with minimal review"
    ELSE IF FloatGt(score, Float(40))
    THEN "Chunk needs careful review during migration"
    ELSE "Chunk may require manual migration or preprocessing"

\* code_analyzer._assess_migration_readiness, with the clamp
\* min(1.0, max(0.0, score)) of line 441
_assess_migration_readiness(file_analyses, source_language, external_deps, shared_patterns) ==
    LET sum == FloatAdd(FloatAdd(FloatAdd(FloatAdd(Float(0),
                   ComplexityFactor(file_analyses)),
                   DependencyFactor(external_deps)),
                   PatternFactor(shared_patterns)),
                   LanguageFactor(source_language))
        score == IF FloatGt(sum, Float(100)) THEN Float(100)
                 ELSE IF FloatGt(Float(0), sum) THEN Float(0)
                 ELSE sum
    IN [score |-> score, recommendation |-> Recommendation(score)]

-----------------------------------------------------------------------------
(* RepositoryMigrationAgent: the mesh handle and the routing decision      *)
(* (src/jerryrig/core/repository_agent.py)                                 *)

MaxRuns == 2   \* runs of a repeated text in the repository content

\* raw_content: the concatenation of runs, each a text repeated some times.
RawContents ==
    SeqsUpTo([text : {"FILE:", "<fence>", "complex_project",
                      "Complex_Project", "x"},
              times : {1, 20, 21, 100000}], MaxRuns)

\* raw_content.count(text)
count(raw_content, text) ==
    SumSeq([i \in 1..Len(raw_content) |->
               IF raw_content[i].text = text THEN raw_content[i].times
               ELSE 0])

\* len(raw_content)
len(raw_content) ==
    LET chars(text) == CASE text = "FILE:" -> 5
                         [] text = "<fence>" -> 3
                         [] text = "x" -> 1
                         [] OTHER -> 15
    IN SumSeq([i \in 1..Len(raw_content) |->
                  chars(raw_content[i].text) * raw_content[i].times])

\* RepositoryMigrationAgent.__init__; env_key is SOLACE_API_KEY and
\* sam_config what the file at sam_config_path holds: "missing",
\* "mapping", "not_a_mapping" or "agents_not_a_mapping".
RepositoryMigrationAgent(api_key, env_key, SAM_AVAILABLE, sam_config) ==
    LET key == IF api_key # <<>> THEN api_key ELSE env_key
        \* None when reading the configuration raises
        _create_orchestrator_agent ==
            IF sam_config = "agents_not_a_mapping" THEN "None"
            ELSE "orchestrator"
        \* the handle _init_sam_app leaves in sam_app
        _init_sam_app ==
            IF sam_config = "missing" \/ sam_config = "not_a_mapping"
            THEN "None"
            ELSE _create_orchestrator_agent
    IN [api_key |-> key,
        SAM_AVAILABLE |-> SAM_AVAILABLE,
        sam_app |-> IF /\ SAM_AVAILABLE
                       /\ key # <<>>
                       /\ startswith(key, <<"e", "y", "J">>)
                    THEN _init_sam_app
                    ELSE "None"]

\* The decision with the marker threshold off by one.
_should_use_sam_processing_at_20(self, raw_content) ==
    IF self.sam_app = "None" \/ ~self.SAM_AVAILABLE THEN FALSE
    ELSE LET file_count == IF count(raw_content, "FILE:") > 0
                           THEN count(raw_content, "FILE:")
                           ELSE count(raw_content, "<fence>")
         IN \/ file_count >= 20
            \/ len(raw_content) > 100000
            \/ \E i \in 1..Len(raw_content) :
                   raw_content[i].text \in {"complex_project",
                                            "Complex_Project"}

\* RepositoryMigrationAgent._should_use_sam_processing
_should_use_sam_processing(self, raw_content) ==
    IF self.sam_app = "None" \/ ~self.SAM_AVAILABLE THEN FALSE
    ELSE LET file_count == IF count(raw_content, "FILE:") > 0
                           THEN count(raw_content, "FILE:")
                           ELSE count(raw_content, "<fence>")
             content_size == len(raw_content)
             lower(text) == CASE text = "FILE:" -> "file:"
                              [] text = "Complex_Project" -> "complex_project"
                              [] OTHER -> text
         IN \/ file_count > 20
            \/ content_size > 100000
            \/ \E i \in 1..Len(raw_content) :
                   lower(raw_content[i].text) = "complex_project"

-----------------------------------------------------------------------------
(* MeshClient.monitor_migration_progress (src/jerryrig/core/mesh_client.py) *)
(* Time is counted in units of 5 seconds.                                  *)

MaxTimeout == 3   \* the ceiling `timeout`, in units of 5 seconds
MaxPollTime == 2  \* a status request takes at most 10 seconds (timeout=10)

\* What the mesh answers to GET /status/<id>: a JSON record with a status,
\* a JSON record without one, JSON that is not a record, a body that is not
\* JSON, an HTTP error status, or no answer at all.
MeshAnswers ==
    [kind : {"record"},
     status : {"pending", "migrating", "completed", "failed", "cancelled",
               "error", "absent"}]
    \cup [kind : {"not_a_record", "not_json", "http_error",
                  "connection_error"}, status : {"absent"}]

\* MeshClient.get_request_status: the record returned, or raised
get_request_status(answer) ==
    IF answer.kind \in {"http_error", "connection_error", "not_json"}
    THEN [raised |-> TRUE]
    ELSE [raised |-> FALSE, json |-> answer]

\* One iteration that lets the exception of a failed poll escape.
MonitorIterationRaising(answer) ==
    LET status == get_request_status(answer)
    IN IF status.raised \/ status.json.kind # "record"
       THEN [pc |-> "raised", sleep |-> 0]
       ELSE IF status.json.status \in {"completed", "failed", "error"}
            THEN [pc |-> "returned", sleep |-> 0]
            ELSE [pc |-> "loop", sleep |-> 1]

\* The body of the while loop of monitor_migration_progress: where the
\* call goes next and how long it sleeps first.
MonitorIteration(answer) ==
    LET status == get_request_status(answer)
    IN IF status.raised \/ status.json.kind # "record"
       THEN \* except Exception: warning, time.sleep(10)
            [pc |-> "loop", sleep |-> 2]
       ELSE LET current_status ==
                    IF status.json.status = "absent" THEN "unknown"
                    ELSE status.json.status
            IN IF current_status \in {"completed", "failed", "error"}
               THEN [pc |-> "returned", sleep |-> 0]
               ELSE [pc |-> "loop", sleep |-> 1]

\* while time.time() - start_time < timeout: one status poll that takes
\* poll_time, then the return or the sleep.
MonitorPoll(answer, poll_time) ==
    LET next == MonitorIteration(answer)
    IN /\ monitoring.pc = "loop"
       /\ monitoring.elapsed < monitoring.timeout
       /\ monitoring' =
              [monitoring EXCEPT
                  !.pc = next.pc,
                  !.elapsed = @ + poll_time + next.sleep,
                  !.polled = Append(@, answer),
                  !.result = IF next.pc = "returned" THEN answer ELSE @]
       /\ UnchangedExcept("monitoring")

\* The loop condition fails: raise Exception("Migration timed out ...").
MonitorTimeout ==
    /\ monitoring.pc = "loop"
    /\ ~(monitoring.elapsed < monitoring.timeout)
    /\ monitoring' = [monitoring EXCEPT !.pc = "raised"]
    /\ UnchangedExcept("monitoring")

-----------------------------------------------------------------------------
(* MeshLauncher (src/jerryrig/core/mesh_launcher.py)                       *)

MaxClients == 2     \* WebSocket clients that may connect
MaxProcesses == 1   \* supervised subprocesses in self.processes

\* MeshLauncher.__init__ with n subprocesses under supervision.  pc is
\* where the main thread is: "constructed", "starting" (the WebSocket server
\* thread was started), "monitoring", "returned", "raised", or "exited"
\* (SystemExit is propagating).  sent, shutdown, startup and interrupted
\* record what happened: the status events sent and to whom, the steps the
\* latest stop_mesh ran, how the startup steps ended, and whether a signal,
\* an interrupt or a caller asked for the stop.
MeshLauncher(n) ==
    [pc |-> "constructed", websocket_server |-> "None",
     websocket_clients |-> {}, sam_gateway |-> "None",
     processes |-> [i \in 1..n |-> "running"],
     sent |-> <<>>, shutdown |-> <<>>, startup |-> "none",
     interrupted |-> FALSE]

\* MeshLauncher._broadcast_status; the send to the clients of `failing`
\* raises, and they are discarded.
_broadcast_status(self, status, failing) ==
    IF self.websocket_clients = {} THEN self
    ELSE [self EXCEPT
             !.sent = Append(@, [status |-> status,
                                 to |-> self.websocket_clients \ failing]),
             !.websocket_clients = @ \ failing,
             \* line 166: sys.exit(0)
             !.pc = "exited"]

\* MeshLauncher.stop_mesh; the subprocesses of `stubborn` outlive the
\* 5-second wait.
stop_mesh(self, failing, stubborn) ==
    LET broadcast == _broadcast_status(
                         [self EXCEPT !.shutdown = <<"broadcast">>],
                         "stopping", failing)
    IN IF broadcast.pc = "exited" THEN broadcast
       ELSE [broadcast EXCEPT
                !.websocket_server = IF @ = "None" THEN @ ELSE "closed",
                !.sam_gateway = IF @ = "None" THEN @ ELSE "stopped",
                !.processes = [i \in DOMAIN @ |->
                                  IF i \in stubborn THEN "killed"
                                  ELSE "terminated"],
                !.shutdown = <<"broadcast", "websocket", "gateway",
                               "processes">>]

\* start_mesh, first step: _start_websocket_server (which may fail to bind
\* its port; the error is logged).
StartWebsocketServer(bound) ==
    /\ launcher.pc = "constructed"
    /\ launcher' = [launcher EXCEPT
                       !.pc = "starting",
                       !.shutdown = <<>>,
                       !.websocket_server = IF bound THEN "serving" ELSE @]
    /\ UnchangedExcept("launcher")

\* handle_websocket on the server thread: a client connects or leaves.
HandleWebsocket(client) ==
    /\ launcher.websocket_server = "serving"
    /\ launcher.pc \in {"starting", "monitoring"}
    /\ launcher' = [launcher EXCEPT
                       !.websocket_clients =
                           IF client \in @ THEN @ \ {client}
                           ELSE @ \cup {client}]
    /\ UnchangedExcept("launcher")

\* start_mesh, the rest: the startup steps (raises: one of them raises;
\* gateway: the SAM gateway could be started), the "running" broadcast and
\* the entry of _monitor_mesh; on an exception stop_mesh and re-raise.
start_mesh(raises, gateway, failing, stubborn) ==
    /\ launcher.pc = "starting"
    /\ launcher' =
           IF raises
           THEN LET stopped == stop_mesh(
                                   [launcher EXCEPT !.startup = "raised"],
                                   failing, stubborn)
                IN IF stopped.pc = "exited" THEN stopped
                   ELSE [stopped EXCEPT !.pc = "raised"]
           ELSE LET running == _broadcast_status(
                                   [launcher EXCEPT
                                       !.startup = "completed",
                                       !.sam_gateway =
                                           IF gateway THEN "running" ELSE @],
                                   "running", failing)
                IN IF running.pc = "exited" THEN running
                   ELSE [running EXCEPT !.pc = "monitoring"]
    /\ UnchangedExcept("launcher")

\* _monitor_mesh: KeyboardInterrupt (or any other exception) leaves the
\* loop; finally: stop_mesh.
_monitor_mesh(failing, stubborn) ==
    /\ launcher.pc = "monitoring"
    /\ launcher' =
           LET stopped == stop_mesh([launcher EXCEPT !.interrupted = TRUE],
                                    failing, stubborn)
           IN IF stopped.pc = "exited" THEN stopped
              ELSE [stopped EXCEPT !.pc = "returned"]
    /\ UnchangedExcept("launcher")

\* _signal_handler on SIGINT or SIGTERM, and the explicit stop_mesh of a
\* caller: stop_mesh on the main thread, which then goes on where it was.
\* A SystemExit raised inside the monitoring loop runs its finally clause:
\* stop_mesh once more.
_signal_handler(failing, stubborn) ==
    /\ launcher.pc \in {"constructed", "starting", "monitoring"}
    /\ launcher' =
           LET stopped == stop_mesh([launcher EXCEPT !.interrupted = TRUE],
                                    failing, stubborn)
           IN IF stopped.pc = "exited" /\ launcher.pc = "monitoring"
              THEN stop_mesh(stopped, {}, stubborn)
              ELSE stopped
    /\ UnchangedExcept("launcher")

-----------------------------------------------------------------------------
(* CodeMigrator (src/jerryrig/core/migrator.py)                            *)

MaxDirFiles == 3   \* source files of the directory to migrate

\* The source files of a directory: the path of a file is its position;
\* dependencies is len(fa.dependencies).
SourceTrees ==
    SeqsUpTo([language : {"python", "javascript"}, dependencies : 0..1,
              complexity_score : {0, 2}], MaxDirFiles)

\* self.analyzer.analyze_repository(str(source_path)), line 110:
\* self.analyzer is a RepositoryParser, and RepositoryParser has no
\* attribute analyze_repository.
analyze_repository(tree) == [raised |-> "AttributeError"]

\* CodeMigrator._calculate_migration_order: sorted() by
\* len(dependencies) + complexity_score, stable, over the analysed files.
_calculate_migration_order(file_analyses, files_to_migrate) ==
    LET complexity(p) == file_analyses[p].dependencies
                             + file_analyses[p].complexity_score
        Place(sorted, p) ==
            LET before == {i \in 1..Len(sorted) :
                              complexity(sorted[i]) <= complexity(p)}
            IN SubSeq(sorted, 1, Cardinality(before)) \o <<p>>
                   \o SubSeq(sorted, Cardinality(before) + 1, Len(sorted))
        RECURSIVE Sort(_)
        Sort(n) == IF n = 0 THEN <<>>
                   ELSE IF n \in files_to_migrate THEN Place(Sort(n - 1), n)
                   ELSE Sort(n - 1)
    IN Sort(Len(file_analyses))

\* CodeMigrator._create_migration_plan for what analyze_repository gave.
_create_migration_plan(analysis, target_language) ==
    IF analysis.raised # "no" THEN [raised |-> analysis.raised]
    ELSE IF analysis.languages = {} THEN [raised |-> "ValueError"]
    ELSE LET fas == analysis.file_analyses
             files(l) == {p \in 1..Len(fas) : fas[p].language = l}
             \* max() keeps the first of the most frequent languages
             primary_language ==
                 CHOOSE l \in analysis.languages :
                     \A m \in analysis.languages :
                         \/ Cardinality(files(m)) < Cardinality(files(l))
                         \/ /\ Cardinality(files(m)) = Cardinality(files(l))
                            /\ \A p \in files(m) : \E q \in files(l) : q <= p
         IN [raised |-> "no",
             source_language |-> primary_language,
             target_language |-> target_language,
             files_to_migrate |-> files(primary_language),
             dependency_order |->
                 _calculate_migration_order(fas, files(primary_language))]

\* CodeMigrator._migrate_single_file: a Migration Result; the file cannot
\* be read when `readable` is false.  The SolaceAgent of a CodeMigrator
\* holds no key here.
_migrate_single_file(source_file, language, target_language, readable) ==
    IF ~readable
    THEN [source_file |-> source_file, source_language |-> "unknown",
          target_language |-> target_language, migration_success |-> FALSE]
    ELSE [source_file |-> source_file, source_language |-> language,
          target_language |-> target_language,
          migration_success |->
              migrate_code([api_key |-> <<>>], <<>>, language,
                           target_language, [outcome |-> "ok"]).success]

\* CodeMigrator._execute_migration_plan
_execute_migration_plan(plan, tree, readable) ==
    [i \in 1..Len(plan.dependency_order) |->
        _migrate_single_file(plan.dependency_order[i],
                             tree[plan.dependency_order[i]].language,
                             plan.target_language, readable)]

\* CodeMigrator.migrate_code: what it raised, the plan and the results.
CodeMigrator_migrate_code(tree, is_file, target_language, readable) ==
    IF target_language \notin {"python", "javascript", "typescript", "java",
                               "cpp", "c", "csharp", "go", "rust", "ruby",
                               "php", "swift", "kotlin"}
    THEN [raised |-> "ValueError"]
    ELSE IF is_file
    THEN [raised |-> "no", plan |-> [raised |-> "none"],
          results |-> <<_migrate_single_file(1, tree[1].language,
                                             target_language, readable)>>]
    ELSE LET migration_plan ==
                 _create_migration_plan(analyze_repository(tree),
                                        target_language)
         IN IF migration_plan.raised # "no"
            THEN [raised |-> migration_plan.raised]
            ELSE [raised |-> "no", plan |-> migration_plan,
                  results |-> _execute_migration_plan(migration_plan, tree,
                                                      readable)]

-----------------------------------------------------------------------------
(* The ingestion digest: GitingestScraper.save_to_file                     *)
(* (src/jerryrig/core/scraper.py) and                                      *)
(* RepositoryParser._split_gitingest_sections (src/jerryrig/core/analyzer.py) *)
(* A text is the sequence of its lines (text.split('\n'), so the empty     *)
(* string is one empty line) and a line the sequence of its pieces.        *)

MaxTextLines == 2   \* lines of a section text

\* The lines a section text is made of.
TextLines == {<<>>, <<" ">>, <<"a">>, <<" ", "a", " ">>, <<"SUMMARY:", "a">>,
              <<" ", "SUMMARY:">>, <<"DIRECTORY STRUCTURE:">>,
              <<"FILE CONTENTS:">>, <<"<40 dashes>">>, <<"<39 dashes>">>}
Texts == SeqsUpTo(TextLines, MaxTextLines) \ {<<>>}

\* f.write(text) on the lines written so far: the first line of the text
\* goes on with the last line of the file.
Write(f, text) ==
    SubSeq(f, 1, Len(f) - 1) \o <<f[Len(f)] \o text[1]>> \o Tail(text)

\* GitingestScraper.save_to_file: the lines of the file it writes.
save_to_file(results) ==
    LET Section(f, header, text, end) ==
            IF text = <<<<>>>> THEN f
            ELSE Write(Write(Write(Write(f, <<<<header>>, <<>>>>),
                                   <<<<"<40 dashes>">>, <<>>>>),
                             text), end)
        banner == Write(Write(Write(<<<<>>>>,
                                    <<<<"<80 equals>">>, <<>>>>),
                              <<<<"GITINGEST RESULTS">>, <<>>>>),
                        <<<<"<80 equals>">>, <<>>, <<>>>>)
        summary == Section(banner, "SUMMARY:", results.summary,
                           <<<<>>, <<>>, <<>>>>)
        directory_structure ==
            Section(summary, "DIRECTORY STRUCTURE:",
                    results.directory_structure, <<<<>>, <<>>, <<>>>>)
    IN Section(directory_structure, "FILE CONTENTS:", results.file_contents,
               <<<<>>, <<>>>>)

\* A splitter that tells no banner line from content.
IsBannerNever(line) == FALSE

\* line.startswith('-' * 40)
IsBanner(line) == line # <<>> /\ line[1] = "<40 dashes>"

\* RepositoryParser._split_gitingest_sections over the lines of content;
\* '\n'.join(current_content) is the text of these lines, the empty string
\* for none.  A section the content does not open stays "absent".
RECURSIVE _split_gitingest_sections(_, _, _, _)
_split_gitingest_sections(content, sections, current_section, current_content) ==
    LET join == IF current_content = <<>> THEN <<<<>>>> ELSE current_content
        closed == IF current_section = "None" THEN sections
                  ELSE [sections EXCEPT ![current_section] = join]
        line == Head(content)
        header == IF line = <<>> THEN "None"
                  ELSE IF line[1] = "SUMMARY:" THEN "summary"
                  ELSE IF line[1] = "DIRECTORY STRUCTURE:"
                       THEN "directory_structure"
                  ELSE IF line[1] = "FILE CONTENTS:" THEN "file_contents"
                  ELSE "None"
    IN IF content = <<>> THEN closed
       ELSE IF header # "None"
       THEN _split_gitingest_sections(Tail(content), closed, header, <<>>)
       ELSE IF current_section # "None" /\ ~IsBanner(line)
       THEN _split_gitingest_sections(Tail(content), sections,
                                      current_section,
                                      Append(current_content, line))
       ELSE _split_gitingest_sections(Tail(content), sections,
                                      current_section, current_content)

-----------------------------------------------------------------------------
(* RepositoryMigrationAgent, the direct path (_migrate_with_fallback,       *)
(* src/jerryrig/core/repository_agent.py).  A path is its directory and the *)
(* stem of its file name; all files of a run have the same extension.  A    *)
(* code file carries what migrating it will do: the agent reports success   *)
(* ("ok"), reports no success ("failed"), or an exception is raised         *)
(* ("raises").                                                              *)

MaxCodeFiles == 2   \* code files extracted from the digest

CodePaths == [dir : {"", "src", "tests", "lib"}, stem : {"main", "utils", "app"}]

\* The lists of code files of _analyze_repository_content: distinct paths.
CodeFileLists ==
    {files \in SeqsUpTo([path : CodePaths,
                         outcome : {"ok", "failed", "raises"}], MaxCodeFiles) :
        \A i, j \in 1..Len(files) : files[i].path = files[j].path => i = j}

\* RepositoryMigrationAgent._prioritize_files: five list comprehensions
\* over code_files, each its own keyword test on the lower-cased path, then
\* the groups one after the other.
_prioritize_files(code_files) ==
    LET in(keyword, path) ==
            \/ keyword = "main" /\ path.stem = "main"
            \/ keyword = "src" /\ path.dir = "src"
            \/ keyword = "util" /\ path.stem = "utils"
            \/ keyword = "test" /\ path.dir = "tests"
        IsMain(f) == in("main", f.path) \/ in("index", f.path)
        IsCore(f) == in("core", f.path) \/ in("src", f.path)
        IsUtil(f) == in("util", f.path) \/ in("helper", f.path)
        IsTest(f) == in("test", f.path) \/ in("spec", f.path)
        IsOther(f) == ~(IsMain(f) \/ IsCore(f) \/ IsUtil(f) \/ IsTest(f))
        main_files == SelectSeq(code_files, IsMain)
        core_files == SelectSeq(code_files, IsCore)
        util_files == SelectSeq(code_files, IsUtil)
        test_files == SelectSeq(code_files, IsTest)
        other_files == SelectSeq(code_files, IsOther)
        priority_order == main_files \o core_files \o util_files
                              \o other_files \o test_files
    IN [i \in 1..Len(priority_order) |-> priority_order[i].path]

\* RepositoryMigrationAgent._get_target_filename: f"{stem}{new_extension}",
\* the directory of the source path is dropped.
_get_target_filename(source_path, target_language) ==
    [dir |-> "", stem |-> source_path.stem]

\* The loop of _execute_migration_plan that stops at the first exception.
RepositoryMigrationAgent_execute_until_exception(migration_plan) ==
    LET priority == migration_plan.migration_priority
        file_info(p) == LET code_files == migration_plan.code_files
                       IN code_files[CHOOSE k \in DOMAIN code_files : code_files[k].path = p]
        raising == {i \in 1..Len(priority) : file_info(priority[i]).outcome = "raises"}
        last == IF raising = {} THEN Len(priority)
                ELSE (CHOOSE i \in raising : \A j \in raising : i <= j) - 1
        attempts == [i \in 1..last |-> file_info(priority[i])]
        Ok(f) == f.outcome = "ok"
        NotOk(f) == f.outcome # "ok"
        migrated == SelectSeq(attempts, Ok)
        failed == SelectSeq(attempts, NotOk)
    IN [files |-> [i \in 1..Len(migrated) |->
                      [source |-> migrated[i].path,
                       target |-> _get_target_filename(migrated[i].path, migration_plan.target_language)]],
        errors |-> [i \in 1..Len(failed) |-> failed[i].path] \o
                   (IF raising = {} THEN <<>> ELSE <<priority[last + 1]>>),
        total_processed |-> Len(priority),
        successful |-> Len(migrated)]

\* RepositoryMigrationAgent._execute_migration_plan: every entry of
\* migration_priority is looked up in code_files and migrated inside its
\* own try.
RepositoryMigrationAgent_execute_migration_plan(migration_plan) ==
    LET priority == migration_plan.migration_priority
        file_info(p) == LET code_files == migration_plan.code_files
                       IN code_files[CHOOSE k \in DOMAIN code_files : code_files[k].path = p]
        attempts == [i \in 1..Len(priority) |-> file_info(priority[i])]
        Ok(f) == f.outcome = "ok"
        NotOk(f) == f.outcome # "ok"
        migrated == SelectSeq(attempts, Ok)
        failed == SelectSeq(attempts, NotOk)
    IN [files |-> [i \in 1..Len(migrated) |->
                      [source |-> migrated[i].path,
                       target |-> _get_target_filename(migrated[i].path, migration_plan.target_language)]],
        errors |-> [i \in 1..Len(failed) |-> failed[i].path],
        total_processed |-> Len(priority),
        successful |-> Len(migrated)]

-----------------------------------------------------------------------------
(* FastRepositoryMigrator (src/jerryrig/core/fast_migrator.py) with the     *)
(* RepositoryChunkerAgent and CodeMigratorAgent it delegates to.  A source  *)
(* file is its path and what _migrate_single_file does for it: it returns a *)
(* result with success ("ok") or without ("failed"), or it raises.          *)

MaxFastFiles    == 3   \* source files found by _get_source_files_fast
SequentialLimit == 2   \* the cap of source_files[:50], scaled down

\* The blobs of the repository tree that pass the source-file filter, in
\* tree order; the path of the i-th is i.
FastFileLists ==
    {[i \in DOMAIN outcomes |-> [path |-> i, outcome |-> outcomes[i]]] :
        outcomes \in SeqsUpTo({"ok", "failed", "raises"}, MaxFastFiles)}

\* RepositoryChunkerAgent._extract_files_from_repository: the files are the
\* FILE: sections of repository_data.get('raw_content', ''); no other key
\* of repository_data is read.
_extract_files_from_repository(repository_data) ==
    IF "raw_content" \in DOMAIN repository_data
    THEN repository_data.raw_content ELSE <<>>

\* RepositoryChunkerAgent.process_chunking_request: chunk_config is read
\* for 'chunk_size' only, so the chunk size is self.max_chunk_size.
process_chunking_request(self, request) ==
    LET files == _extract_files_from_repository(request.repository_data)
        chunk_size == IF "chunk_size" \in DOMAIN request.chunk_config
                      THEN request.chunk_config.chunk_size
                      ELSE self.max_chunk_size
    IN [success |-> TRUE, chunks |-> _create_file_chunks(files, chunk_size),
        total_files |-> Len(files)]

\* FastRepositoryMigrator._migrate_sequential_fallback
_migrate_sequential_fallback(source_files) ==
    LET attempts == SubSeq(source_files, 1, Min(SequentialLimit, Len(source_files)))
        Ok(f) == f.outcome = "ok"
        NotOk(f) == f.outcome # "ok"
        successful == SelectSeq(attempts, Ok)
        failed == SelectSeq(attempts, NotOk)
    IN [successful |-> [i \in 1..Len(successful) |-> successful[i].path],
        failed |-> [i \in 1..Len(failed) |-> failed[i].path],
        processing_method |-> "sequential_fallback"]

\* FastRepositoryMigrator._migrate_with_sam_agents.  loop_runs: the event
\* loop could be run (run_until_complete raises otherwise).  A migration
\* request carries the chunk's files under 'files'; CodeMigratorAgent reads
\* 'chunk_analysis', and its response has neither 'migrated_files' nor
\* 'failed_files'.
_migrate_with_sam_agents(self, source_files, target_language, loop_runs) ==
    LET chunk_request == [repository_data |-> [source_files |-> source_files],
                          chunk_config |-> [max_chunk_size |-> self.max_workers]]
        chunking_result == process_chunking_request([max_chunk_size |-> self.max_workers], chunk_request)
        chunks == chunking_result.chunks
        migration_results ==
            [k \in DOMAIN chunks |->
                process_migration_request([api_key |-> <<>>], <<>>, target_language)]
        Listed(result, key) == IF key \in DOMAIN result THEN result[key] ELSE <<>>
    IN IF ~loop_runs \/ ~chunking_result.success
       THEN _migrate_sequential_fallback(source_files)
       ELSE [successful |->
                 Flatten([k \in DOMAIN migration_results |->
                             IF migration_results[k].success
                             THEN Listed(migration_results[k], "migrated_files")
                             ELSE <<>>]),
             failed |->
                 Flatten([k \in DOMAIN migration_results |->
                             IF migration_results[k].success THEN <<>>
                             ELSE Listed(migration_results[k], "failed_files")]),
             processing_method |-> "sam_agent_mesh"]

\* FastRepositoryMigrator.migrate_repository_fast with _migrate_files_parallel
migrate_repository_fast(self, source_files, target_language, loop_runs) ==
    LET migration_results ==
            IF self.use_sam
            THEN _migrate_with_sam_agents(self, source_files, target_language, loop_runs)
            ELSE _migrate_sequential_fallback(source_files)
    IN [total_files |-> Len(source_files),
        migrated_files |-> Len(migration_results.successful),
        failed_files |-> Len(migration_results.failed),
        results |-> migration_results]

-----------------------------------------------------------------------------
(* The stage functions chained (sam_project/agents): each consumes the      *)
(* message the previous one produced.  A message is a record with exactly   *)
(* the keys of the dict that matter for the hand-over.                      *)

\* dict.get(key, default)
GetOr(dict, key, default) == IF key \in DOMAIN dict THEN dict[key] ELSE default

\* repository_input.process on a request with a repository_url: the
\* returned message (lines 37-75).
input_output(input_data) ==
    LET request == input_data.request
    IN IF "target_language" \notin DOMAIN request
       THEN [request |-> request, status |-> "failed"]
       ELSE [request |->
                 [correlation_id |-> GetOr(request, "correlation_id", "req_time"),
                  operation_type |-> "migration",
                  source_language |-> GetOr(request, "source_language", "auto-detect")]
                 @@ request,
             operation_type |-> "migration", status |-> "validated"]

\* repository_orchestrator.process: chunk_request and workflow_state
\* (lines 37-78)
orchestrator_output(input_data) ==
    LET request == GetOr(input_data, "request", <<>>)
        session_id == "session_new"
    IN [chunk_request |->
            [session_id |-> session_id,
             correlation_id |-> GetOr(request, "correlation_id", "None"),
             repository_url |-> GetOr(request, "repository_url", "None"),
             source_language |-> GetOr(request, "source_language", "None"),
             operation_type |-> GetOr(request, "operation_type", "analysis")],
        workflow_state |->
            [session_id |-> session_id,
             correlation_id |-> GetOr(request, "correlation_id", "None"),
             target_language |-> GetOr(request, "target_language", "None")],
        status |-> "orchestrated", session_id |-> session_id]

\* repository_chunker.process: the chunk requests (lines 64-86) for a clone
\* of Python files that yields `chunks` chunks
chunker_output(input_data, chunks) ==
    LET requested == GetOr(input_data, "source_language", "None")
        source_language == IF requested = "auto-detect" THEN "python"
                           ELSE requested
    IN
    [chunks |->
         [i \in 1..chunks |->
             [session_id |-> GetOr(input_data, "session_id", "None"),
              correlation_id |-> GetOr(input_data, "correlation_id", "None"),
              chunk_index |-> i - 1, total_chunks |-> chunks,
              source_language |-> source_language,
              operation_type |-> GetOr(input_data, "operation_type", "analysis"),
              metadata |->
                  [repository_url |-> GetOr(input_data, "repository_url", "None"),
                   chunk_size |-> 1]]],
     status |-> "chunked"]

\* code_analyzer.process: the returned message (lines 69-96)
analyzer_output(input_data) ==
    [analysis |->
         [session_id |-> GetOr(input_data, "session_id", "None"),
          correlation_id |-> GetOr(input_data, "correlation_id", "None"),
          chunk_index |-> GetOr(input_data, "chunk_index", 0),
          source_language |-> GetOr(input_data, "source_language", "None"),
          operation_type |-> GetOr(input_data, "operation_type", "analysis"),
          file_analyses |-> <<"file">>],
     status |-> "completed"]

\* code_migrator.process: the target language it migrates every file to
\* comes from input_data.get('metadata', {}) (lines 41-43).
migrator_output(input_data) ==
    LET analysis == GetOr(input_data, "analysis", <<>>)
        metadata == GetOr(input_data, "metadata", <<>>)
        target_language == GetOr(metadata, "target_language", "javascript")
    IN [migrated_code |->
            [session_id |-> GetOr(input_data, "session_id", "None"),
             correlation_id |-> GetOr(input_data, "correlation_id", "None"),
             source_language |-> GetOr(analysis, "source_language", "None"),
             target_language |-> target_language],
        status |-> "completed"]

-----------------------------------------------------------------------------
(* The simple-migration command (src/jerryrig/cli.py) and the temporary     *)
(* directory of its RepositoryParser (src/jerryrig/core/analyzer.py).       *)
(* temp_dir is "None" before mkdtemp, then the directory exists until it is *)
(* removed.                                                                 *)

MaxSimpleFiles == 3   \* top-level source files migrated by the command

\* RepositoryParser.extract_repository_zip without an extract_dir: the
\* temporary directory is made first, then the archive is opened.
extract_repository_zip(self, zip_ok) ==
    [self |-> [temp_dir |-> IF self.temp_dir = "None" THEN "exists"
                            ELSE self.temp_dir],
     raised |-> ~zip_ok]

\* RepositoryParser.cleanup
cleanup(self) ==
    [temp_dir |-> IF self.temp_dir = "exists" THEN "removed" ELSE self.temp_dir]

\* except Exception in simple_migration: the message, then exit(1)
Exit1(run) == [run EXCEPT !.pc = "ended", !.exit = 1]

\* Step 1, scraper.scrape_repository
ScrapeRepository(raises) ==
    /\ simple.pc = "step1"
    /\ simple' = IF raises THEN Exit1(simple) ELSE [simple EXCEPT !.pc = "step2"]
    /\ UnchangedExcept("simple")

\* Step 2, parser.create_repository_package: parse, download, extract,
\* get_source_files; any of them may raise.
CreateRepositoryPackage(raises_in, source_files) ==
    /\ simple.pc = "step2"
    /\ simple' =
           IF raises_in \in {"parse", "download"} THEN Exit1(simple)
           ELSE LET extracted == extract_repository_zip(simple.parser, raises_in # "extract")
                    run == [simple EXCEPT !.parser = extracted.self]
                IN IF extracted.raised \/ raises_in = "source_files"
                   THEN Exit1(run)
                   ELSE [run EXCEPT !.pc = "step3", !.important_files = source_files]
    /\ UnchangedExcept("simple")

\* Step 3 up to the loop: the report of the package and SolaceAgent()
CreateAgent(raises) ==
    /\ simple.pc = "step3"
    /\ simple' = IF raises THEN Exit1(simple) ELSE [simple EXCEPT !.pc = "migrating"]
    /\ UnchangedExcept("simple")

\* One iteration of the loop over important_files; what happens inside the
\* inner try is caught there.
MigrateImportantFile ==
    /\ simple.pc = "migrating"
    /\ simple.important_files # <<>>
    /\ simple' = [simple EXCEPT
                     !.important_files = Tail(@),
                     !.migrated_files =
                         IF Head(simple.important_files) = "ok" THEN @ + 1 ELSE @]
    /\ UnchangedExcept("simple")

\* After the loop: the summary, parser.cleanup(), return
FinishSimpleMigration ==
    /\ simple.pc = "migrating"
    /\ simple.important_files = <<>>
    /\ simple' = [simple EXCEPT !.pc = "ended", !.exit = 0,
                                !.parser = cleanup(simple.parser)]
    /\ UnchangedExcept("simple")

-----------------------------------------------------------------------------
(* One _broadcast_status of the main thread interleaved with the           *)
(* handle_websocket coroutines of the WebSocket server thread               *)
(* (src/jerryrig/core/mesh_launcher.py).  The two threads share             *)
(* websocket_clients and take no lock.  connected and stayed are the        *)
(* clients whose handler is between its add and its discard, now and since  *)
(* the broadcast began; it is the iterator of the for statement: the size   *)
(* of the set when the loop began and the entries the iterator has not      *)
(* reached yet.                                                             *)

WebSocketIds == 1..(MaxClients + 1)   \* every connection is a new object

\* handle_websocket up to its first await: the new connection is added to
\* the set.  Its slot lies before or after the place an iterator has reached.
handle_websocket(websocket, slot_ahead) ==
    /\ bcast.pc \in {"idle", "for", "cleanup"}
    /\ websocket \notin bcast.seen
    /\ Cardinality(bcast.connected) < MaxClients
    /\ bcast' = [bcast EXCEPT
                     !.websocket_clients = @ \cup {websocket},
                     !.connected = @ \cup {websocket},
                     !.seen = @ \cup {websocket},
                     !.it.ahead = IF bcast.pc = "for" /\ slot_ahead
                                  THEN @ \cup {websocket} ELSE @]
    /\ UnchangedExcept("bcast")

\* handle_websocket after wait_closed: the finally clause discards the
\* connection.
handle_websocket_finally(websocket) ==
    /\ bcast.pc \in {"idle", "for", "cleanup"}
    /\ websocket \in bcast.connected
    /\ bcast' = [bcast EXCEPT
                     !.websocket_clients = @ \ {websocket},
                     !.connected = @ \ {websocket},
                     !.stayed = @ \ {websocket}]
    /\ UnchangedExcept("bcast")

\* _broadcast_status up to the for statement: nothing to do for an empty
\* set, else the iterator over the set is made.
BroadcastBegin ==
    /\ bcast.pc = "idle"
    /\ bcast' = IF bcast.websocket_clients = {}
                THEN [bcast EXCEPT !.pc = "ended", !.outcome = "returned"]
                ELSE [bcast EXCEPT
                          !.pc = "for",
                          !.stayed = bcast.connected,
                          !.it = [si_used |-> Cardinality(bcast.websocket_clients),
                                  ahead |-> bcast.websocket_clients]]
    /\ UnchangedExcept("bcast")

\* One turn of the for statement.  The iterator first compares the size of
\* the set with the size it saw when the loop began and raises RuntimeError
\* (outside the try of the loop body) when they differ; else it yields the
\* next entry still in the set, and the body sends to it: a send that raises
\* puts the client on disconnected_clients.
BroadcastNext(send_raises) ==
    /\ bcast.pc = "for"
    /\ LET ahead == bcast.it.ahead \cap bcast.websocket_clients
       IN IF bcast.it.si_used # Cardinality(bcast.websocket_clients)
          THEN bcast' = [bcast EXCEPT !.pc = "ended", !.outcome = "RuntimeError"]
          ELSE IF ahead = {}
          THEN bcast' = [bcast EXCEPT !.pc = "cleanup"]
          ELSE \E client \in ahead :
                 bcast' = [bcast EXCEPT
                     !.it.ahead = ahead \ {client},
                     !.sent = IF send_raises THEN @ ELSE @ \cup {client},
                     !.stayed = IF send_raises THEN @ \ {client} ELSE @,
                     !.disconnected_clients =
                         IF send_raises THEN @ \cup {client} ELSE @]
    /\ UnchangedExcept("bcast")

\* After the loop: the clients whose send raised are discarded, then
\* sys.exit(0).
BroadcastCleanUp ==
    /\ bcast.pc = "cleanup"
    /\ bcast' = [bcast EXCEPT
                     !.pc = "ended", !.outcome = "SystemExit",
                     !.websocket_clients = @ \ bcast.disconnected_clients]
    /\ UnchangedExcept("bcast")

---------
(* Specifications *)

\* The subsystems other than `part` are as constructed, nothing called.
IdleExcept(part) ==
    /\ IF part = "tracker" THEN TRUE
       ELSE workflows = [c \in CorrIds |-> NoWorkflow]
    /\ IF part = "stage" THEN TRUE
       ELSE stageCall = [stage |-> "none"] /\ stageResult = NotCalled
    /\ IF part = "agent" THEN TRUE
       ELSE /\ agent = [api_key |-> <<>>]
            /\ agentCall = [op |-> "none"]
            /\ agentResult = [op |-> "none"]
    /\ IF part = "chunk" THEN TRUE
       ELSE chunkInput = [step |-> "none"] /\ chunkResult = [done |-> FALSE]
    /\ IF part = "validation" THEN TRUE
       ELSE /\ validationInput = [target_lang |-> "none"]
            /\ validation = [done |-> FALSE]
    /\ IF part = "readiness" THEN TRUE
       ELSE /\ readinessInput = [source_language |-> "none"]
            /\ readiness = [done |-> FALSE]
    /\ IF part = "routing" THEN TRUE ELSE routing = [done |-> FALSE]
    /\ IF part = "monitoring" THEN TRUE ELSE monitoring = [pc |-> "idle"]
    /\ IF part = "launcher" THEN TRUE ELSE launcher = [pc |-> "none"]
    /\ IF part = "migration" THEN TRUE ELSE migration = [done |-> FALSE]
    /\ IF part = "digest" THEN TRUE ELSE digest = [pc |-> "none"]
    /\ IF part = "direct" THEN TRUE ELSE direct = [pc |-> "none"]
    /\ IF part = "fast" THEN TRUE ELSE fast = [pc |-> "none"]
    /\ IF part = "chain" THEN TRUE ELSE chain = [pc |-> "none"]
    /\ IF part = "simple" THEN TRUE ELSE simple = [pc |-> "none"]
    /\ IF part = "bcast" THEN TRUE ELSE bcast = [pc |-> "none"]
    /\ IF part = "handlers" THEN TRUE
       ELSE handlers = [event_handlers |-> <<>>, notified |-> <<>>]

\* ---- ProgressTracker: no workflow tracked, then any operation ----
Init == workflows = [c \in CorrIds |-> NoWorkflow] /\ IdleExcept("tracker")

\* No event handler is registered here (see EmitSpec for handlers).
Next ==
    \/ \E c \in CorrIds : start_workflow(c) /\ UNCHANGED handlers
    \/ \E c \in CorrIds, s \in WorkflowStatus :
           update_workflow_status(c, s) /\ UNCHANGED handlers
    \/ \E c \in CorrIds, n \in 0..MaxChunks, d \in ChunkDataLists :
           update_chunking_progress(c, n, d) /\ UNCHANGED handlers
    \/ \E c \in CorrIds, i \in 0..MaxChunks :
           update_chunk_analysis(c, i) /\ UNCHANGED handlers
    \/ \E c \in CorrIds, i \in 0..MaxChunks, ok \in MigrationCounts,
          bad \in MigrationCounts :
           update_chunk_migration(c, i, ok, bad) /\ UNCHANGED handlers
    \/ \E c \in CorrIds : complete_workflow(c) /\ UNCHANGED handlers
    \/ \E c \in CorrIds : fail_workflow(c) /\ UNCHANGED handlers

Spec == Init /\ [][Next]_vars

\* ---- ProgressTracker with event handlers ----
\* The operation on workflow c has emitted the events its log holds from
\* position `first` on: every one of them went to the handlers.
Notified(c, first) ==
    LET emitted == IF workflows'[c].tracked
                   THEN SubSeq(workflows'[c].events, first,
                               Len(workflows'[c].events))
                   ELSE <<>>
    IN handlers' =
           [handlers EXCEPT
               !.notified =
                   Flatten([k \in 1..Len(emitted) |->
                               NotifyEventHandlers(handlers.event_handlers,
                                                   emitted[k])])]

\* The first event an operation on c appends to the log of c.
NextEvent(c) == IF Tracked(c) THEN Len(workflows[c].events) + 1 ELSE 1

EmitNext ==
    \/ \E handler \in {"returns", "raises"} : add_event_handler(handler)
    \/ \E c \in CorrIds : start_workflow(c) /\ Notified(c, 1)
    \/ \E c \in CorrIds, s \in {"chunking", "migrating"} :
           update_workflow_status(c, s) /\ Notified(c, NextEvent(c))
    \/ \E c \in CorrIds :
           update_chunking_progress(c, 1, <<[chunk_id |-> 0,
                                            file_count |-> 1]>>)
               /\ Notified(c, NextEvent(c))
    \/ \E c \in CorrIds :
           update_chunk_analysis(c, 0) /\ Notified(c, NextEvent(c))
    \/ \E c \in CorrIds :
           update_chunk_migration(c, 0, 1, 0) /\ Notified(c, NextEvent(c))
    \/ \E c \in CorrIds : complete_workflow(c) /\ Notified(c, NextEvent(c))
    \/ \E c \in CorrIds : fail_workflow(c) /\ Notified(c, NextEvent(c))

EmitSpec == Init /\ [][EmitNext]_vars

\* ---- the stage functions: one call of one stage ----
StageInit == /\ stageCall \in StageInputs /\ stageResult = NotCalled
             /\ IdleExcept("stage")

\* The call of `stage` returns `result`.
Run(stage, result) ==
    /\ stageCall.stage = stage /\ stageResult = NotCalled
    /\ stageResult' = result
    /\ UNCHANGED stageCall
    /\ UnchangedExcept("stage")

StageNext ==
    \/ Run("repository_input", repository_input(stageCall))
    \/ Run("repository_orchestrator", repository_orchestrator(stageCall))
    \/ Run("handle_completion", handle_completion(stageCall))
    \/ Run("repository_chunker", repository_chunker(stageCall))
    \/ Run("code_analyzer", code_analyzer(stageCall))
    \/ Run("code_migrator", code_migrator(stageCall))
    \/ Run("result_aggregator", result_aggregator(stageCall))

StageSpec == StageInit /\ [][StageNext]_vars

\* ---- SolaceAgent.migrate_code: an agent is constructed, then called ----
AgentInit ==
    /\ agent \in {SolaceAgent(k, s, o, a) :
                     k \in ApiKeys, s \in {<<>>, <<"e", "y", "J", "h">>},
                     o \in {<<>>, <<"s", "k", "-", "1">>},
                     a \in {<<>>, <<"s", "k", "-", "a", "n", "t", "-", "1">>}}
    /\ agentCall = [op |-> "none"]
    /\ agentResult = [op |-> "none"]
    /\ IdleExcept("agent")

MigrateCode ==
    /\ agentCall.op = "none"
    /\ \E source_code \in SeqsUpTo({"def ", "True", "x"}, MaxSrcLen),
          source_language \in Languages, target_language \in Languages,
          backend \in Backends :
        /\ agentCall' = [op |-> "migrate_code", source_code |-> source_code,
                         source_language |-> source_language,
                         target_language |-> target_language,
                         backend |-> backend]
        /\ agentResult' = migrate_code(agent, source_code, source_language,
                                       target_language, backend)
    /\ UNCHANGED agent
    /\ UnchangedExcept("agent")

AgentSpec == AgentInit /\ [][MigrateCode]_vars

\* ---- CodeMigratorAgent.process_migration_request ----
BatchInit ==
    /\ agent \in {SolaceAgent(k, <<>>, <<>>, <<>>) : k \in ApiKeys}
    /\ agentCall = [op |-> "none"]
    /\ agentResult = [op |-> "none"]
    /\ IdleExcept("agent")

ProcessMigrationRequest ==
    /\ agentCall.op = "none"
    /\ \E file_analyses \in SeqsUpTo(BatchFiles, MaxBatch),
          target_language \in {"javascript", "python"} :
        /\ agentCall' = [op |-> "process_migration_request",
                         file_analyses |-> file_analyses,
                         target_language |-> target_language]
        /\ agentResult' = process_migration_request(agent, file_analyses,
                                                    target_language)
    /\ UNCHANGED agent
    /\ UnchangedExcept("agent")

BatchSpec == BatchInit /\ [][ProcessMigrationRequest]_vars

\* ---- the chunking steps: one step on one file list ----
ChunkInit ==
    /\ chunkInput \in [step : {"_create_file_chunks", "_create_chunks",
                               "_create_repository_chunks"},
                       files : SeqsUpTo(ChunkFiles, MaxFiles),
                       chunk_size : 1..MaxChunkSize,
                       max_file_size : 1..MaxFileBytes]
    /\ chunkResult = [done |-> FALSE]
    /\ IdleExcept("chunk")

\* The step `step` produces `chunks`.
Chunked(step, chunks) ==
    /\ chunkInput.step = step
    /\ ~chunkResult.done
    /\ chunkResult' = [done |-> TRUE, chunks |-> chunks]
    /\ UNCHANGED chunkInput
    /\ UnchangedExcept("chunk")

ChunkNext ==
    \/ Chunked("_create_file_chunks",
               _create_file_chunks(chunkInput.files, chunkInput.chunk_size))
    \/ Chunked("_create_chunks",
               _create_chunks(chunkInput.files, chunkInput.chunk_size,
                              chunkInput.max_file_size))
    \/ Chunked("_create_repository_chunks",
               _create_repository_chunks(chunkInput.files,
                                         chunkInput.chunk_size))

ChunkSpec == ChunkInit /\ [][ChunkNext]_vars

\* ---- _validate_migration ----
ValidationInit ==
    /\ validationInput \in [original : SeqsUpTo({"# note", "x = 1"},
                                                MaxOrigLines),
                            migrated : SeqsUpTo(Lines, MaxMigLines),
                            target_lang : {"python", "javascript", "java", "go"},
                            original_functions : 0..MaxFunctions]
    /\ validation = [done |-> FALSE]
    /\ IdleExcept("validation")

ValidateMigration ==
    /\ ~validation.done
    /\ validation' = [done |-> TRUE,
                      result |-> _validate_migration(
                                     validationInput.original,
                                     validationInput.migrated,
                                     validationInput.target_lang,
                                     validationInput.original_functions)]
    /\ UNCHANGED validationInput
    /\ UnchangedExcept("validation")

ValidationSpec == ValidationInit /\ [][ValidateMigration]_vars

\* ---- _assess_migration_readiness ----
ReadinessInit ==
    /\ readinessInput \in
           [file_analyses : SeqsUpTo(ComplexityScores, MaxAnalyses),
            source_language : {"python", "javascript", "typescript", "java",
                               "cobol"},
            external_deps : 0..MaxDeps,
            shared_patterns : BOOLEAN]
    /\ readiness = [done |-> FALSE]
    /\ IdleExcept("readiness")

AssessMigrationReadiness ==
    /\ ~readiness.done
    /\ readiness' = [done |-> TRUE,
                     result |-> _assess_migration_readiness(
                                    readinessInput.file_analyses,
                                    readinessInput.source_language,
                                    readinessInput.external_deps,
                                    readinessInput.shared_patterns)]
    /\ UNCHANGED readinessInput
    /\ UnchangedExcept("readiness")

ReadinessSpec == ReadinessInit /\ [][AssessMigrationReadiness]_vars

\* ---- RepositoryMigrationAgent: construct, then decide the routing ----
RoutingInit ==
    /\ \E api_key \in {<<>>, <<"e", "y", "J", "h">>, <<"s", "k", "-", "1">>},
          env_key \in {<<>>, <<"e", "y", "J", "h">>},
          available \in BOOLEAN,
          sam_config \in {"missing", "mapping", "not_a_mapping",
                          "agents_not_a_mapping"},
          raw_content \in RawContents :
           routing = [done |-> FALSE,
                      self |-> RepositoryMigrationAgent(api_key, env_key,
                                                        available,
                                                        sam_config),
                      raw_content |-> raw_content]
    /\ IdleExcept("routing")

ShouldUseSamProcessing ==
    /\ ~routing.done
    /\ routing' = [done |-> TRUE,
                   self |-> routing.self,
                   raw_content |-> routing.raw_content,
                   use_sam |-> _should_use_sam_processing(
                                   routing.self, routing.raw_content)]
    /\ UnchangedExcept("routing")

RoutingSpec == RoutingInit /\ [][ShouldUseSamProcessing]_vars

\* ---- MeshClient.monitor_migration_progress: one call ----
MonitorInit ==
    /\ \E timeout \in 0..MaxTimeout :
           monitoring = [pc |-> "loop", timeout |-> timeout, elapsed |-> 0,
                         polled |-> <<>>,
                         result |-> [kind |-> "none", status |-> "absent"]]
    /\ IdleExcept("monitoring")

MonitorNext ==
    \/ \E answer \in MeshAnswers, poll_time \in 0..MaxPollTime :
           MonitorPoll(answer, poll_time)
    \/ MonitorTimeout

MonitorSpec == MonitorInit /\ [][MonitorNext]_vars

\* ---- MeshLauncher: construct, start, clients, signals ----
LauncherInit ==
    /\ \E n \in 0..MaxProcesses : launcher = MeshLauncher(n)
    /\ IdleExcept("launcher")

LauncherNext ==
    \/ \E bound \in BOOLEAN : StartWebsocketServer(bound)
    \/ \E client \in 1..MaxClients : HandleWebsocket(client)
    \/ \E raises \in BOOLEAN, gateway \in BOOLEAN,
          failing \in SUBSET (1..MaxClients),
          stubborn \in SUBSET (1..MaxProcesses) :
           start_mesh(raises, gateway, failing, stubborn)
    \/ \E failing \in SUBSET (1..MaxClients),
          stubborn \in SUBSET (1..MaxProcesses) :
           _monitor_mesh(failing, stubborn)
    \/ \E failing \in SUBSET (1..MaxClients),
          stubborn \in SUBSET (1..MaxProcesses) :
           _signal_handler(failing, stubborn)

LauncherSpec == LauncherInit /\ [][LauncherNext]_vars

\* ---- CodeMigrator.migrate_code: one call on a file or a directory ----
MigrationInit ==
    /\ \E tree \in SourceTrees, is_file \in BOOLEAN, readable \in BOOLEAN,
          target_language \in {"javascript", "python", "cobol"} :
           /\ is_file => tree # <<>>
           /\ migration = [done |-> FALSE, tree |-> tree,
                           is_file |-> is_file, readable |-> readable,
                           target_language |-> target_language]
    /\ IdleExcept("migration")

MigrateSourcePath ==
    /\ ~migration.done
    /\ migration' = [done |-> TRUE, tree |-> migration.tree,
                     is_file |-> migration.is_file,
                     readable |-> migration.readable,
                     target_language |-> migration.target_language,
                     outcome |-> CodeMigrator_migrate_code(
                                     migration.tree, migration.is_file,
                                     migration.target_language,
                                     migration.readable)]
    /\ UnchangedExcept("migration")

MigrationSpec == MigrationInit /\ [][MigrateSourcePath]_vars

\* ---- the ingestion digest: save_to_file, then the section splitter ----
\* One of the three sections holds any text, the other two a short one.
DigestInit ==
    /\ \E any \in {"summary", "directory_structure", "file_contents"},
          text \in Texts, short \in [{1, 2} -> {<<<<>>>>, <<<<"a">>>>}] :
           digest = [pc |-> "results",
                     results |->
                         [summary |->
                              IF any = "summary" THEN text ELSE short[1],
                          directory_structure |->
                              IF any = "directory_structure" THEN text
                              ELSE IF any = "summary" THEN short[1]
                              ELSE short[2],
                          file_contents |->
                              IF any = "file_contents" THEN text
                              ELSE short[2]]]
    /\ IdleExcept("digest")

SaveToFile ==
    /\ digest.pc = "results"
    /\ digest' = [pc |-> "saved", results |-> digest.results,
                  file |-> save_to_file(digest.results)]
    /\ UnchangedExcept("digest")

SplitGitingestSections ==
    /\ digest.pc = "saved"
    /\ digest' = [pc |-> "split", results |-> digest.results,
                  file |-> digest.file,
                  sections |-> _split_gitingest_sections(
                                   digest.file,
                                   [k \in {"summary", "directory_structure",
                                           "file_contents"} |-> "absent"],
                                   "None", <<>>)]
    /\ UnchangedExcept("digest")

DigestSpec == DigestInit /\ [][SaveToFile \/ SplitGitingestSections]_vars

\* ---- RepositoryMigrationAgent, direct path: plan, then execution ----
DirectInit ==
    /\ \E code_files \in CodeFileLists :
           direct = [pc |-> "analyzed", code_files |-> code_files]
    /\ IdleExcept("direct")

\* _create_migration_plan (lines 377-387)
CreateMigrationPlan ==
    /\ direct.pc = "analyzed"
    /\ direct' = [pc |-> "planned", code_files |-> direct.code_files,
                  migration_plan |->
                      [target_language |-> "javascript",
                       code_files |-> direct.code_files,
                       migration_priority |->
                           _prioritize_files(direct.code_files)]]
    /\ UnchangedExcept("direct")

\* _migrate_with_fallback, line 653
ExecuteMigrationPlan ==
    /\ direct.pc = "planned"
    /\ direct' = [pc |-> "executed", code_files |-> direct.code_files,
                  migration_plan |-> direct.migration_plan,
                  migration_results |->
                      RepositoryMigrationAgent_execute_migration_plan(
                          direct.migration_plan)]
    /\ UnchangedExcept("direct")

DirectNext == CreateMigrationPlan \/ ExecuteMigrationPlan

DirectSpec == DirectInit /\ [][DirectNext]_vars

\* ---- FastRepositoryMigrator: one call of migrate_repository_fast ----
FastInit ==
    /\ \E source_files \in FastFileLists, use_sam \in BOOLEAN, loop_runs \in BOOLEAN :
           fast = [pc |-> "called", source_files |-> source_files,
                   self |-> [use_sam |-> use_sam, max_workers |-> 2],
                   loop_runs |-> loop_runs]
    /\ IdleExcept("fast")

MigrateRepositoryFast ==
    /\ fast.pc = "called"
    /\ fast' = [pc |-> "returned", source_files |-> fast.source_files,
                self |-> fast.self, loop_runs |-> fast.loop_runs,
                result |-> migrate_repository_fast(fast.self, fast.source_files,
                                                   "javascript", fast.loop_runs)]
    /\ UnchangedExcept("fast")

FastSpec == FastInit /\ [][MigrateRepositoryFast]_vars

\* ---- the three per-file loops: the code_migrator stage, the sequential
\* fallback of the fast migrator, the direct path of the repository agent ----
IsolationInit == StageInit \/ DirectInit \/ FastInit

IsolationNext == StageNext \/ DirectNext \/ MigrateRepositoryFast

IsolationSpec == IsolationInit /\ [][IsolationNext]_vars

\* ---- the stage functions chained on one request ----
ChainInit ==
    /\ \E given \in SUBSET {"target_language", "correlation_id", "source_language"},
          full \in [repository_url : {"url"},
                    target_language : {"python", "javascript", "typescript"},
                    correlation_id : {"cid1"}, source_language : {"python", "java"}],
          chunks \in 1..MaxChunks :
         LET request == [key \in {"repository_url"} \cup given |-> full[key]] IN
           chain = [pc |-> "request", request |-> request, chunks |-> chunks,
                    chunk |-> 0, message |-> [request |-> request]]
    /\ IdleExcept("chain")

\* The message at hand is consumed by the next stage function.
Pass(from, to, output) ==
    /\ chain.pc = from
    /\ chain' = [chain EXCEPT !.pc = IF output.status = "failed" THEN "failed" ELSE to,
                              !.message = output]
    /\ UnchangedExcept("chain")

\* repository_chunker's chunk requests go to code_analyzer one by one.
PassChunk(i) ==
    /\ chain.pc = "chunked"
    /\ i \in DOMAIN chain.message.chunks
    /\ chain' = [chain EXCEPT !.pc = "analyzed", !.chunk = i,
                              !.message = analyzer_output(chain.message.chunks[i])]
    /\ UnchangedExcept("chain")

ChainNext ==
    \/ Pass("request", "validated", input_output(chain.message))
    \/ Pass("validated", "orchestrated", orchestrator_output(chain.message))
    \/ Pass("orchestrated", "chunked", chunker_output(chain.message.chunk_request, chain.chunks))
    \/ \E i \in 1..MaxChunks : PassChunk(i)
    \/ Pass("analyzed", "migrated", migrator_output(chain.message))

ChainSpec == ChainInit /\ [][ChainNext]_vars

\* ---- the simple-migration command: one run ----
SimpleInit ==
    /\ simple = [pc |-> "step1", parser |-> [temp_dir |-> "None"],
                 important_files |-> <<>>, migrated_files |-> 0, exit |-> "running"]
    /\ IdleExcept("simple")

SimpleNext ==
    \/ \E raises \in BOOLEAN : ScrapeRepository(raises)
    \/ \E raises_in \in {"nothing", "parse", "download", "extract", "source_files"},
          source_files \in SeqsUpTo({"ok", "failed", "raises", "unknown_language"}, MaxSimpleFiles) :
           CreateRepositoryPackage(raises_in, source_files)
    \/ \E raises \in BOOLEAN : CreateAgent(raises)
    \/ MigrateImportantFile
    \/ FinishSimpleMigration

SimpleSpec == SimpleInit /\ [][SimpleNext]_vars

\* ---- one status broadcast and the WebSocket thread, interleaved ----
BroadcastInit ==
    /\ bcast = [pc |-> "idle", websocket_clients |-> {}, connected |-> {},
                seen |-> {}, stayed |-> {}, sent |-> {},
                disconnected_clients |-> {},
                it |-> [si_used |-> 0, ahead |-> {}], outcome |-> "none"]
    /\ IdleExcept("bcast")

BroadcastRaceNext ==
    \/ \E websocket \in WebSocketIds, slot_ahead \in BOOLEAN :
           handle_websocket(websocket, slot_ahead)
    \/ \E websocket \in WebSocketIds : handle_websocket_finally(websocket)
    \/ BroadcastBegin
    \/ \E send_raises \in BOOLEAN : BroadcastNext(send_raises)
    \/ BroadcastCleanUp

BroadcastRaceSpec == BroadcastInit /\ [][BroadcastRaceNext]_vars

-----------------------------------------------------------------------------
(* Claims *)

\* A call for correlation id c of one of the four operations named by C1.
StatusCall(c) ==
    \/ \E s \in WorkflowStatus : update_workflow_status(c, s)
    \/ \E i \in 0..MaxChunks, ok \in MigrationCounts, bad \in MigrationCounts :
           update_chunk_migration(c, i, ok, bad)
    \/ complete_workflow(c)
    \/ fail_workflow(c)

\* C1: once a workflow's status is terminal (completed, failed, cancelled),
\* no call of update_workflow_status, update_chunk_migration,
\* complete_workflow or fail_workflow for that correlation id makes it
\* non-terminal again.
C1_TerminalStatusIsFinal ==
    [][\A c \in CorrIds :
          (/\ Tracked(c)
           /\ workflows[c].status \in TerminalStatuses
           /\ StatusCall(c))
          => workflows'[c].status \in TerminalStatuses]_vars

\* The steps of the state machine of C2.
StatusOrder == <<"pending", "chunking", "analyzing", "migrating",
                 "aggregating", "completed">>
LegalStep(old, new) ==
    \/ \E i \in 1..(Len(StatusOrder) - 1) :
           old = StatusOrder[i] /\ new = StatusOrder[i + 1]
    \/ old \notin TerminalStatuses /\ new \in {"failed", "cancelled"}

\* C2: every status change the tracker applies to a tracked workflow is a
\* step pending -> chunking -> analyzing -> migrating -> aggregating ->
\* completed, or a step from a non-terminal status to failed or cancelled.
C2_StatusChangesFollowStateMachine ==
    [][\A c \in CorrIds :
          (/\ Tracked(c)
           /\ ~start_workflow(c)
           /\ workflows'[c].status # workflows[c].status)
          => LegalStep(workflows[c].status, workflows'[c].status)]_vars

\* C3: every stage function returns a record for every input dict, no
\* exception escapes, and a failed processing is reported as status
\* "failed" with an error string.
C3_StagesNeverRaise ==
    stageResult # NotCalled =>
        /\ ~stageResult.raised
        /\ stageResult.status = "failed" <=> stageResult.error

\* C4: migrate_code never propagates an exception, whatever the provider
\* and the outcome of the backend request; with no API key it returns
\* success true and a non-empty migrated_code for any source text.
C4_MigrateCodeNeverRaises ==
    agentCall.op = "migrate_code" =>
        /\ ~agentResult.raised
        /\ agent.api_key = <<>> =>
              /\ agentResult.success
              /\ agentResult.migrated_code # <<>>

\* C4 witness: a keyed agent whose backend request failed with an HTTP
\* error status and whose caller got the mock record.
C4_Witness ==
    /\ agentCall.op = "migrate_code"
    /\ agent.api_key = <<"s", "k", "-", "1">>
    /\ agentCall.backend.outcome = "http_error"
    /\ ~agentResult.raised
    /\ agentResult.via = "mock"

\* The provider the prefix order of the specification selects.
SpecifiedProvider(api_key) ==
    IF api_key = <<>> THEN "mock"
    ELSE IF startswith(api_key, <<"e", "y", "J">>) THEN "solace_sam"
    ELSE IF startswith(api_key, <<"s", "k", "-", "a", "n", "t", "-">>)
         THEN "anthropic"
    ELSE IF startswith(api_key, <<"s", "k", "-">>) THEN "openai"
    ELSE "unknown"

\* The call method of a provider, as the result records it.
CallMethod(provider) ==
    IF provider = "unknown" THEN "solace_api" ELSE provider

\* C5: the provider follows the prefix order eyJ, sk-ant-, sk-, no key,
\* other; migrate_code dispatches to the call method of that provider.
C5_ProviderFollowsPrefixOrder ==
    (agentCall.op = "migrate_code" /\ agentCall.backend.outcome = "ok") =>
        agentResult.via = CallMethod(SpecifiedProvider(agent.api_key))

\* The files of a batch whose backend request failed (a request is made
\* only by an agent that has a key).
FailedRequests(ag, file_analyses) ==
    IF ag.api_key = <<>> THEN 0
    ELSE Cardinality({i \in DOMAIN file_analyses :
                         file_analyses[i].backend.outcome # "ok"})

\* C6: if the backend request fails for exactly k of the n files of a
\* batch (every answered request reporting success), the aggregate has
\* failed_migrations = k and successful_migrations = n - k, and the batch
\* call does not raise.
C6_FailedRequestsAreCounted ==
    (/\ agentCall.op = "process_migration_request"
     /\ \A i \in DOMAIN agentCall.file_analyses :
            agentCall.file_analyses[i].backend.outcome = "ok"
                => agentCall.file_analyses[i].backend.success)
    => /\ ~agentResult.raised
       /\ agentResult.chunk_migration.failed_migrations
              = FailedRequests(agent, agentCall.file_analyses)
       /\ agentResult.chunk_migration.successful_migrations
              = Len(agentCall.file_analyses)
                    - FailedRequests(agent, agentCall.file_analyses)

Ceil(n, k) == (n + k - 1) \div k

\* The list a chunking step chunks: repository_chunker sorts it first.
ChunkedList ==
    IF chunkInput.step = "_create_chunks"
    THEN Sorted(chunkInput.files) ELSE chunkInput.files

\* C7: N files and chunk size K >= 1 give ceil(N/K) chunks of at most K
\* files whose file lists, concatenated in chunk order, are the chunked
\* list (for repository_chunker: with every file under the size ceiling).
C7_ChunkingPartitions ==
    (/\ chunkResult.done
     /\ \A i \in DOMAIN chunkInput.files :
            chunkInput.files[i].size <= chunkInput.max_file_size
               \/ chunkInput.step # "_create_chunks")
    => /\ Len(chunkResult.chunks)
              = Ceil(Len(chunkInput.files), chunkInput.chunk_size)
       /\ \A k \in DOMAIN chunkResult.chunks :
              Len(chunkResult.chunks[k].files) <= chunkInput.chunk_size
       /\ Flatten([k \in DOMAIN chunkResult.chunks |->
                      chunkResult.chunks[k].files]) = ChunkedList

\* C7 witness: three files in chunks of two, the last chunk partial and
\* the sorted order different from the given one.
C7_Witness ==
    /\ chunkResult.done
    /\ chunkInput.step = "_create_chunks"
    /\ Len(chunkInput.files) = 3
    /\ chunkInput.chunk_size = 2
    /\ chunkInput.max_file_size = MaxFileBytes
    /\ Sorted(chunkInput.files) # chunkInput.files
    /\ Len(chunkResult.chunks) = 2
    /\ Len(chunkResult.chunks[2].files) = 1

\* C8: a python target whose non-empty migrated text has a syntax error
\* gives is_valid false and confidence exactly 0.2.
C8_SyntaxErrorConfidence ==
    (/\ validation.done
     /\ validationInput.target_lang = "python"
     /\ \E i \in DOMAIN validationInput.migrated :
            validationInput.migrated[i] # "  "
     /\ \E i \in DOMAIN validationInput.migrated :
            validationInput.migrated[i] \in
                {"// note", "def f(:", "function f() {", "}"})
    => /\ ~validation.result.is_valid
       /\ validation.result.confidence = 20

\* C9: an empty or whitespace-only migrated text gives is_valid false,
\* confidence 0.0 and the empty-result error, and no later check is
\* performed or changes the result.
C9_EmptyResultHardFails ==
    (/\ validation.done
     /\ \A i \in DOMAIN validationInput.migrated :
            validationInput.migrated[i] = "  ")
    => validation.result =
           [is_valid |-> FALSE, warnings |-> <<>>,
            errors |-> <<"Migration produced empty result">>,
            confidence |-> 0, checks_performed |-> <<>>]

\* C9 witness: a whitespace-only migrated text for an original with a
\* comment and a listed function, python target.
C9_Witness ==
    /\ validation.done
    /\ validationInput.migrated = <<"  ">>
    /\ validationInput.original = <<"# note", "x = 1">>
    /\ validationInput.original_functions = 1
    /\ validationInput.target_lang = "python"
    /\ ~validation.result.is_valid

\* average complexity >= 30 (the high bucket)
HighBucket(file_analyses) ==
    file_analyses # <<>> /\ SumSeq(file_analyses) >= 30 * Len(file_analyses)

\* C10: the readiness score lies in [0.0, 1.0], and with the other inputs
\* fixed, a chunk of average complexity below 30 never scores less than
\* one of average complexity 30 or more.
C10_ReadinessBoundedMonotone ==
    readiness.done =>
        /\ ~FloatGt(Float(0), readiness.result.score)
        /\ ~FloatGt(readiness.result.score, Float(100))
        /\ HighBucket(readinessInput.file_analyses) =>
              \A lower \in SeqsUpTo(ComplexityScores, MaxAnalyses) :
                  ~HighBucket(lower) =>
                      ~FloatGt(readiness.result.score,
                               _assess_migration_readiness(
                                   lower, readinessInput.source_language,
                                   readinessInput.external_deps,
                                   readinessInput.shared_patterns).score)

\* C10 witness: a high-complexity chunk with many dependencies in an
\* unsupported language, scored at its lowest.
C10_Witness ==
    /\ readiness.done
    /\ readinessInput.file_analyses = <<30, 60>>
    /\ readinessInput.external_deps = 15
    /\ ~readinessInput.shared_patterns
    /\ readinessInput.source_language = "cobol"
    /\ readiness.result.score = Float(20)

\* ---- C11 ----
\* The repository "looks large": more than 20 markers (FILE: markers, or
\* code fences when there is no FILE: marker), or more than 100,000
\* characters, or the text named by `marked`.
LooksLarge(raw_content, marked) ==
    LET markers == IF count(raw_content, "FILE:") > 0
                   THEN count(raw_content, "FILE:")
                   ELSE count(raw_content, "<fence>")
    IN markers > 20 \/ len(raw_content) > 100000 \/ marked

TerminalPolls ==
    {i \in 1..Len(monitoring.polled) :
        /\ monitoring.polled[i].kind = "record"
        /\ monitoring.polled[i].status \in {"completed", "failed", "error"}}

\* C12: monitor_migration_progress ends in two ways only.  It returns the
\* status record of the first poll that observes completed, failed or error
\* (never a record with another status), or it raises the timeout error,
\* and then the ceiling has elapsed.  While it runs no poll has observed
\* such a status; a failed poll leaves it running; and it polls at most once
\* per 5 seconds of the ceiling, so it does end.
C12_MonitoringEndsInTwoWays ==
    /\ monitoring.pc \in {"idle", "loop", "returned", "raised"}
    /\ monitoring.pc = "returned" =>
           /\ monitoring.result.kind = "record"
           /\ monitoring.result.status \in {"completed", "failed", "error"}
           /\ monitoring.result = monitoring.polled[Len(monitoring.polled)]
           /\ TerminalPolls = {Len(monitoring.polled)}
    /\ monitoring.pc = "raised" =>
           /\ monitoring.elapsed >= monitoring.timeout
           /\ TerminalPolls = {}
    /\ monitoring.pc = "loop" =>
           /\ TerminalPolls = {}
           /\ Len(monitoring.polled) <= monitoring.timeout

\* The first poll failed, the second observed completed and the call
\* returned that record.
C12_Witness ==
    /\ monitoring.pc = "returned"
    /\ Len(monitoring.polled) = 2
    /\ monitoring.polled[1].kind = "connection_error"
    /\ monitoring.result.status = "completed"

\* ---- C13 ----
\* C13: every invocation of stop_mesh runs the whole shutdown sequence in
\* order: the stopping broadcast, the close of the WebSocket server if
\* started, the stop of the gateway if started, and the termination of
\* every supervised subprocess (killed after the 5-second wait), with zero
\* or more WebSocket clients connected.
C13_StopMeshRunsWholeShutdown ==
    launcher.pc # "none" /\ launcher.shutdown # <<>> =>
        /\ launcher.shutdown = <<"broadcast", "websocket", "gateway",
                                 "processes">>
        /\ launcher.websocket_server # "serving"
        /\ launcher.sam_gateway # "running"
        /\ \A i \in DOMAIN launcher.processes :
               launcher.processes[i] \in {"terminated", "killed"}

\* ---- C18 ----
\* C18: once start_mesh has completed its startup steps without an
\* exception, and until it is interrupted, it is in the monitoring loop
\* (the "running" broadcast is behind it), with zero or more WebSocket
\* clients connected at the time of the broadcast.
C18_StartMeshReachesMonitoringLoop ==
    launcher.pc # "none" /\ launcher.startup = "completed"
                         /\ ~launcher.interrupted =>
        launcher.pc = "monitoring"

\* ---- C14 ----
\* C14: for a directory input (with source files and a supported target
\* language) migrate_code builds a Migration Plan whose source_language is
\* a most frequent language of the analysed files and whose order lists the
\* files to migrate by ascending dependency count + complexity score, and
\* it migrates the files in exactly that order, every Migration Result
\* carrying the requested target language.
C14_DirectoryMigratedInPlanOrder ==
    (/\ migration.done
     /\ ~migration.is_file
     /\ migration.tree # <<>>
     /\ migration.target_language # "cobol") =>
        LET tree == migration.tree
            out == migration.outcome
            weight(p) == tree[p].dependencies + tree[p].complexity_score
            of(l) == {p \in 1..Len(tree) : tree[p].language = l}
        IN /\ out.raised = "no"
           /\ \A l \in {"python", "javascript"} :
                  Cardinality(of(l))
                      <= Cardinality(of(out.plan.source_language))
           /\ {out.plan.dependency_order[i] :
                  i \in 1..Len(out.plan.dependency_order)}
                  = of(out.plan.source_language)
           /\ Len(out.plan.dependency_order)
                  = Cardinality(of(out.plan.source_language))
           /\ \A i, j \in 1..Len(out.plan.dependency_order) :
                  i < j => weight(out.plan.dependency_order[i])
                               <= weight(out.plan.dependency_order[j])
           /\ Len(out.results) = Len(out.plan.dependency_order)
           /\ \A i \in 1..Len(out.results) :
                  /\ out.results[i].source_file = out.plan.dependency_order[i]
                  /\ out.results[i].target_language
                         = migration.target_language

\* ---- C15 ----
\* text.strip(): a text without its surrounding whitespace.
StripText(text) ==
    LET inked == {i \in 1..Len(text) : \E j \in 1..Len(text[i]) :
                                           text[i][j] # " "}
        first == CHOOSE i \in inked : \A j \in inked : i <= j
        last == CHOOSE i \in inked : \A j \in inked : j <= i
        Ink(line) == {j \in 1..Len(line) : line[j] # " "}
        LStrip(line) == SubSeq(line,
                               CHOOSE j \in Ink(line) :
                                   \A k \in Ink(line) : j <= k,
                               Len(line))
        RStrip(line) == SubSeq(line, 1,
                               CHOOSE j \in Ink(line) :
                                   \A k \in Ink(line) : k <= j)
    IN IF inked = {} THEN <<<<>>>>
       ELSE IF first = last THEN <<RStrip(LStrip(text[first]))>>
       ELSE <<LStrip(text[first])>> \o SubSeq(text, first + 1, last - 1)
                \o <<RStrip(text[last])>>

\* The three strings read back from the sections, '' for an absent one
\* (sections.get(name, '')), are the strings written, up to surrounding
\* whitespace.
RoundTrip ==
    \A k \in {"summary", "directory_structure", "file_contents"} :
        StripText(IF digest.sections[k] = "absent" THEN <<<<>>>>
                  ELSE digest.sections[k])
            = StripText(digest.results[k])

\* C15 as stated: for any three strings, writing them with save_to_file and
\* splitting the text with _split_gitingest_sections yields the same three
\* strings, up to surrounding whitespace.
C15_DigestRoundTrip == digest.pc = "split" => RoundTrip

\* No line of the three strings starts with a section header or with forty
\* dashes.
NoMarkupLine ==
    \A k \in {"summary", "directory_structure", "file_contents"} :
        \A i \in 1..Len(digest.results[k]) :
            LET line == digest.results[k][i]
            IN line = <<>> \/ line[1] \notin {"SUMMARY:", "DIRECTORY STRUCTURE:",
                                             "FILE CONTENTS:", "<40 dashes>"}

\* C15 amended: the round trip holds for any three strings none of whose
\* lines starts with "SUMMARY:", "DIRECTORY STRUCTURE:", "FILE CONTENTS:"
\* or forty dashes.
C15_DigestRoundTripOfPlainText ==
    digest.pc = "split" /\ NoMarkupLine => RoundTrip

\* A two-line summary with surrounding whitespace, an empty directory
\* structure and a file-contents text went through the round trip.
C15_Witness ==
    /\ digest.pc = "split"
    /\ digest.results.summary = <<<<" ", "a", " ">>, <<"<39 dashes>">>>>
    /\ digest.results.directory_structure = <<<<>>>>
    /\ digest.sections.directory_structure = "absent"
    /\ digest.sections.summary
           = <<<<" ", "a", " ">>, <<"<39 dashes>">>, <<>>>>

\* ---- C17 ----
\* C17: when N >= 1 chunks are registered and total_chunks is N, a call of
\* update_chunk_migration moves the workflow to aggregating (the events
\* chunk_migrated and status_changed of one call) only when a migration has
\* been recorded for every one of the N chunks; a repeated update of one
\* chunk does not cause the transition.
C17_AggregatingAfterAllChunks ==
    [][\A c \in CorrIds :
          (/\ Tracked(c)
           /\ workflows[c].metrics.total_chunks
                  = Cardinality(DOMAIN workflows[c].chunks)
           /\ workflows[c].metrics.total_chunks >= 1
           /\ workflows'[c].tracked
           /\ workflows'[c].events
                  = workflows[c].events \o <<"chunk_migrated",
                                             "status_changed">>)
          => \A i \in DOMAIN workflows'[c].chunks :
                 workflows'[c].chunks[i] = "completed"]_vars

\* ---- C16 ----
\* The events the operation of this step emitted for workflow c: the whole
\* log after start_workflow (the only operation that leaves a log of one
\* event), else what the log has gained.
EmittedEvents(c) ==
    LET log == workflows'[c].events
    IN IF ~workflows'[c].tracked THEN <<>>
       ELSE IF Len(log) = 1 THEN log
       ELSE SubSeq(log, Len(workflows[c].events) + 1, Len(log))

\* C16: in every tracker operation, each event emitted (and appended to the
\* workflow's event log) is passed to every registered handler exactly once,
\* in registration order, handlers that raise included; the exception of a
\* handler is caught, so that the handlers after it are called and the
\* operation goes on to its next event.
C16_EveryHandlerOncePerEvent ==
    [][handlers'.event_handlers = handlers.event_handlers =>
          \A c \in CorrIds :
              LET n == Len(handlers.event_handlers)
                  emitted == EmittedEvents(c)
              IN /\ Len(handlers'.notified) = n * Len(emitted)
                 /\ \A e \in 1..Len(emitted), i \in 1..n :
                        handlers'.notified[(e - 1) * n + i]
                            = [handler |-> i, event |-> emitted[e],
                               outcome |->
                                   IF handlers.event_handlers[i] = "raises"
                                   THEN "caught" ELSE "returned"]]_vars

\* A raising handler is registered before a returning one, and the last
\* operation (update_chunk_migration of the only chunk) emitted two events:
\* both handlers were called for both, and the status is aggregating.
C16_Witness ==
    /\ handlers.event_handlers = <<"raises", "returns">>
    /\ Len(handlers.notified) = 4
    /\ handlers.notified[2] = [handler |-> 2, event |-> "chunk_migrated",
                               outcome |-> "returned"]
    /\ handlers.notified[3] = [handler |-> 1, event |-> "status_changed",
                               outcome |-> "caught"]
    /\ workflows["w1"].status = "aggregating"

\* C19: whenever repository_chunker.process returns, with status chunked or
\* failed, the temporary clone directory made for that call no longer
\* exists: after a failed clone, after structure analysis or chunk creation
\* raised, and after a successful run.
C19_CloneDirectoryRemovedOnReturn ==
    (stageCall.stage = "repository_chunker" /\ stageResult.status # "not_called")
        => /\ ~stageResult.raised
           /\ stageResult.status \in {"chunked", "failed"}
           /\ stageResult.temp_dir = "removed"

\* a call whose clone failed has returned, and the directory is gone
C19_Witness ==
    /\ stageCall.stage = "repository_chunker"
    /\ stageCall.clone = "fails"
    /\ stageResult.status = "failed"
    /\ stageResult.temp_dir = "removed"

C21_CountersNeverDecrease ==
    [][\A c \in CorrIds :
          (Tracked(c) /\ workflows'[c].tracked) =>
              /\ workflows'[c].metrics.processed_files
                     >= workflows[c].metrics.processed_files
              /\ workflows'[c].metrics.successful_files
                     >= workflows[c].metrics.successful_files
              /\ workflows'[c].metrics.failed_files
                     >= workflows[c].metrics.failed_files
              /\ workflows'[c].metrics.processed_chunks
                     >= workflows[c].metrics.processed_chunks]_vars

\* C24: for every workflow and after any sequence of tracker operations,
\* processed_chunks <= total_chunks and processed_files <= total_files, so
\* the progress percentage stays within 0 to 100.
C24_ProcessedWithinTotals ==
    \A c \in CorrIds :
        Tracked(c) =>
            /\ workflows[c].metrics.processed_chunks
                   <= workflows[c].metrics.total_chunks
            /\ workflows[c].metrics.processed_files
                   <= workflows[c].metrics.total_files

\* C26: in the direct path of the Repository Migration Agent the migration
\* priority list is a permutation of the extracted code files: every code
\* file is in exactly one bucket and is migrated exactly once, so
\* total_processed equals the number of code files.
C26_PriorityIsPermutation ==
    direct.pc = "executed" =>
        /\ \A k \in 1..Len(direct.code_files) :
               Cardinality({i \in 1..Len(direct.migration_plan.migration_priority) :
                               direct.migration_plan.migration_priority[i]
                                   = direct.code_files[k].path}) = 1
        /\ direct.migration_results.total_processed = Len(direct.code_files)

\* C27: within one run of the direct path two distinct source files are
\* never written to the same output path.
C27_NoTwoSourcesOneTarget ==
    direct.pc = "executed" =>
        \A i, j \in 1..Len(direct.migration_results.files) :
            direct.migration_results.files[i].target
                = direct.migration_results.files[j].target
            => direct.migration_results.files[i].source
                   = direct.migration_results.files[j].source

\* C28: with mesh-backed processing enabled, migrate_repository_fast hands
\* every discovered source file to the chunker agent and the migrator agent,
\* or falls back to sequential processing, so that each of the total_files
\* discovered files is counted in migrated_files or in failed_files.
C28_EveryFileCounted ==
    (fast.pc = "returned" /\ fast.self.use_sam) =>
        fast.result.migrated_files + fast.result.failed_files
            = fast.result.total_files

\* Every attempted file is listed as done or as failed, and nothing else is.
SplitInTwo(attempted, done, failed) ==
    /\ Len(done) + Len(failed) = Len(attempted)
    /\ \A i \in DOMAIN attempted :
           \/ \E k \in DOMAIN done : done[k] = attempted[i]
           \/ \E k \in DOMAIN failed : failed[k] = attempted[i]

\* C22: partial-batch isolation.  In the code_migrator stage, in the
\* sequential fallback of the fast migrator and in the direct path of the
\* repository agent, a file whose migration raises is recorded in the error
\* or failed list of the batch, the files after it are still attempted, and
\* in the result the successful files plus the recorded failures are the
\* files attempted.
C22_PartialBatchIsolation ==
    /\ (/\ stageCall.stage = "code_migrator"
        /\ stageCall.analysis = "dict"
        /\ stageResult.status = "completed") =>
           /\ SplitInTwo([i \in DOMAIN stageCall.file_outcomes |-> i],
                         stageResult.migrated_files, stageResult.errors)
           /\ stageResult.metrics.successful_migrations
                  + stageResult.metrics.failed_migrations
                  = stageResult.metrics.total_files
    /\ (fast.pc = "returned"
        /\ fast.result.results.processing_method = "sequential_fallback") =>
           SplitInTwo([i \in 1..Min(SequentialLimit, Len(fast.source_files)) |-> i],
                      fast.result.results.successful, fast.result.results.failed)
    /\ direct.pc = "executed" =>
           /\ SplitInTwo(direct.migration_plan.migration_priority,
                         [i \in DOMAIN direct.migration_results.files |->
                             direct.migration_results.files[i].source],
                         direct.migration_results.errors)
           /\ direct.migration_results.successful
                  + Len(direct.migration_results.errors)
                  = direct.migration_results.total_processed

\* the direct path has gone on after a file that raised: a later file of
\* the priority list was migrated
C22_Witness ==
    /\ direct.pc = "executed"
    /\ Len(direct.code_files) = 2
    /\ direct.code_files[1].outcome = "raises"
    /\ direct.code_files[2].outcome = "ok"
    /\ direct.migration_plan.migration_priority
           = <<direct.code_files[1].path, direct.code_files[2].path>>
    /\ direct.migration_results.errors = <<direct.code_files[1].path>>
    /\ Len(direct.migration_results.files) = 1

\* C25: when the stage functions are chained, each consuming the message of
\* the previous one, the target language code_migrator uses for every file
\* is the target_language of the original request.
C25_TargetLanguageReachesMigrator ==
    chain.pc = "migrated" =>
        chain.message.migrated_code.target_language = chain.request.target_language

\* C29: monitor_migration_progress returns at the first poll that observes
\* a terminal workflow status (completed, failed or cancelled): no such
\* status has been observed while the call is still polling or when it
\* raises the timeout error, and a call that returned did so with the only
\* such record it polled.
C29_ReturnsOnEveryTerminalStatus ==
    LET Observed == {i \in 1..Len(monitoring.polled) :
                        /\ monitoring.polled[i].kind = "record"
                        /\ monitoring.polled[i].status \in TerminalStatuses}
    IN /\ monitoring.pc \in {"loop", "raised"} => Observed = {}
       /\ monitoring.pc = "returned" => Observed \subseteq {Len(monitoring.polled)}

\* C23: when the simple-migration command ends, whether its steps succeeded
\* or one of them raised after the repository zip was extracted, the
\* temporary extraction directory of the parser has been removed.
C23_TempDirRemovedAtEnd ==
    simple.pc = "ended" => simple.parser.temp_dir # "exists"

\* C30: a status broadcast that runs while clients connect or disconnect on
\* the WebSocket thread needs no lock: in every interleaving the broadcast
\* ends without an error (the SystemExit(0) of the last line is not counted
\* as one here), the message was sent to every client that stayed connected
\* for the whole broadcast, and afterwards the client set holds exactly the
\* clients still connected whose send did not raise.
C30_BroadcastSafeWithoutLock ==
    bcast.pc = "ended" =>
        /\ bcast.outcome # "RuntimeError"
        /\ bcast.stayed \subseteq bcast.sent
        /\ bcast.websocket_clients = bcast.connected \ bcast.disconnected_clients

====
